---- MODULE Spec2Model ----
(***************************************************************************)
(* catmark, src/ansi_renderer.rs: the box-model document tree, the builder *)
(* that turns a pulldown-cmark event stream into it, the layout of the     *)
(* tree into a column budget and the row-by-row renderer.                  *)
(*                                                                         *)
(* A string is a sequence of code points; a code point is a TLA+ string    *)
(* ("h", "U+4E16").  Offsets into a string count code points.  Widths and  *)
(* coordinates are u16 as in the source.                                   *)
(***************************************************************************)
EXTENDS Integers, Sequences, FiniteSets, TLC

VARIABLES
  input,            \* the event stream handed to Ctx::new
  pos,              \* how many of its events iter.next() has returned
  pc,               \* "new", "build", "built", "laid", "rendered", "panic"
  stack,            \* the build_dom calls in progress, innermost last
  links, footnotes, \* Ctx.links, Ctx.footnotes (NoBox for None)
  syntax, highline, \* Ctx.syntax (<<>> for None), Ctx.highline (FALSE for None)
  root,             \* the tree: returned by build, mutated by layout
  width,            \* the column budget build was called with
  built,            \* the tree as build returned it
  overflowed,       \* the first u16 overflow of layout ("" when none)
  out,              \* the rows render printed
  err,              \* the panic message when pc = "panic"
  call,             \* a free function called on its own: its name and arguments
  ret               \* what that call returned, once it has

vars == <<input, pos, pc, stack, links, footnotes, syntax,
          highline, root, width, built, overflowed, out, err, call, ret>>

\* ------------------------------------------------------------------ bounds

\* Largest of the small column budgets.
MaxCols == 3

DEFAULT_COLS == 80

\* The column budgets Ctx::build is given: 0..MaxCols, the 10 of the
\* end-to-end scenarios, and the DEFAULT_COLS push_ansi passes.
Budgets == 0..MaxCols \cup {10, DEFAULT_COLS}

\* Longest generated event stream of the block-structure family.
MaxBlockEvents == 5

\* Longest generated inline sequence inside the one paragraph of the inline
\* family.
MaxInlineEvents == 3

\* ------------------------------------------------------- u16 arithmetic

U16 == 65536

\* The value a u16 operation leaves in a build without overflow checks.
Wrap(n) == ((n % U16) + U16) % U16

\* Whether the exact result n of a u16 operation is representable.
InRange(n) == n >= 0 /\ n < U16

\* --------------------------------------------------------------- strings

\* unicode-width: the columns of one code point.
WideChars == {"U+4E16"}
ZeroWidthChars == {"U+0301", "U+200B", "U+000A"}
CharWidth(c) == IF c \in WideChars THEN 2 ELSE IF c \in ZeroWidthChars THEN 0 ELSE 1

\* unicode-segmentation: code points that extend the cluster before them.
ExtendChars == {"U+0301"}

RECURSIVE StrWidth(_)
StrWidth(s) == IF s = <<>> THEN 0 ELSE CharWidth(Head(s)) + StrWidth(Tail(s))

\* 1-based positions at which a grapheme cluster starts.
grapheme_indices(s) == {i \in 1..Len(s) : i = 1 \/ s[i] \notin ExtendChars}

\* findsplit counting from 1: the offset at which cluster p + 1 begins.
findsplit_next(s, p) ==
  LET starts == grapheme_indices(s)
  IN  IF Cardinality(starts) > p + 1
      THEN (CHOOSE i \in starts : Cardinality({j \in starts : j < i}) = p + 1) - 1
      ELSE Len(s)

findsplit(s, p) ==
  LET starts == grapheme_indices(s)
  IN  IF Cardinality(starts) > p
      THEN (CHOOSE i \in starts : Cardinality({j \in starts : j < i}) = p) - 1
      ELSE Len(s)

\* A Cow<str>: the string and whether the Cow owns it.
Cow(owned, s) == [owned |-> owned, s |-> s]
Borrowed(s) == Cow(FALSE, s)
Owned(s) == Cow(TRUE, s)

\* split_at_in_place truncating before it copies the tail.
split_at_in_place_truncated(cow, mid) ==
  [head |-> Cow(cow.owned, SubSeq(cow.s, 1, mid)), tail |-> Cow(cow.owned, <<>>)]

\* head: what *cow holds afterwards; tail: the Cow returned.
split_at_in_place(cow, mid) ==
  IF cow.owned
  THEN [head |-> Owned(SubSeq(cow.s, 1, mid)),
        tail |-> Owned(SubSeq(cow.s, mid + 1, Len(cow.s)))]
  ELSE [head |-> Borrowed(SubSeq(cow.s, 1, mid)),
        tail |-> Borrowed(SubSeq(cow.s, mid + 1, Len(cow.s)))]

\* A call of a free function on its own, and what it returned.
Call1(fn, args) == [fn |-> fn, args |-> args]
NoCall == Call1("", <<>>)
NotReturned == [done |-> FALSE, value |-> 0]
Returned(value) == [done |-> TRUE, value |-> value]

\* ------------------------------------------------------------- the tree

NoColor == 0 - 1

\* TermColor as u8
Black == 0
Red == 1
Green == 2
Yellow == 3
Blue == 4
Purple == 5
Cyan == 6
White == 7

from_dark(color) == color
from_light(color) == color + 8

\* DomColor::from_grey and from_color, in u8.
from_grey(level) ==
  LET l == level \div 16
  IN  IF l = 0 THEN 16 ELSE IF l = 15 THEN 231 ELSE (231 + l) % 256

\* from_color without the grey case.
from_color_cube(red, green, blue) ==
  LET r == ((red * 6) \div 256) % 256
      g == ((green * 6) \div 256) % 256
      b == ((blue * 6) \div 256) % 256
  IN  (16 + ((r * 36) % 256) + ((g * 6) % 256) + b) % 256

from_color(red, green, blue) ==
  IF red \div 16 = green \div 16 /\ green \div 16 = blue \div 16
  THEN from_grey(red)
  ELSE LET r == ((red * 6) \div 256) % 256
           g == ((green * 6) \div 256) % 256
           b == ((blue * 6) \div 256) % 256
       IN  (16 + ((r * 36) % 256) + ((g * 6) % 256) + b) % 256

DefaultStyle ==
  [bg |-> NoColor, fg |-> NoColor, bold |-> FALSE, underline |-> FALSE,
   strikethrough |-> FALSE, italic |-> FALSE, code |-> FALSE, extend |-> FALSE,
   border_type |-> "Empty"]

DefaultSize ==
  [content |-> [x |-> 0, y |-> 0, w |-> 0, h |-> 0],
   border |-> [top |-> 0, bottom |-> 0, left |-> 0, right |-> 0]]

NoText == Borrowed(<<>>)

\* BoxKind: the variant, the Cow of a Text, the level of a Header or the
\* start of a List (NoStart for List(None)).
NoStart == 0 - 1
Kind(k) == [k |-> k, text |-> NoText, n |-> 0]
KText(cow) == [k |-> "Text", text |-> cow, n |-> 0]
KHeader(level) == [k |-> "Header", text |-> NoText, n |-> level]
KList(start) == [k |-> "List", text |-> NoText, n |-> start]

DomBox(kind, style) ==
  [kind |-> kind, size |-> DefaultSize, style |-> style, children |-> <<>>]

\* Option<DomBox>::None, and the "no continuation" of a LayoutRes.
NoBox == [kind |-> Kind("None"), size |-> DefaultSize, style |-> DefaultStyle,
          children |-> <<>>]

new_block == DomBox(Kind("Block"), DefaultStyle)

\* new_root leaving the width at its default.
new_root_unsized(w) == new_block

new_root(w) == [new_block EXCEPT !.size.content.w = w]

swallow(self, existing) == [self EXCEPT !.children = Append(@, existing)]

Last(s) == s[Len(s)]

\* Whether get_inline_container returns self.
IsInlineHolder(self) == self.kind.k \in {"Inline", "InlineContainer"}

\* self after get_inline_container: a fresh line container is pushed unless
\* self is inline or already ends with one.
get_inline_container(self) ==
  IF IsInlineHolder(self) THEN self
  ELSE IF self.children # <<>> /\ Last(self.children).kind.k = "InlineContainer"
       THEN self
       ELSE swallow(self, DomBox(Kind("InlineContainer"), self.style))

\* self with `child` pushed into its inline container.
PushInline(self, child) ==
  LET holder == get_inline_container(self)
  IN  IF IsInlineHolder(self) THEN swallow(holder, child)
      ELSE [holder EXCEPT !.children[Len(holder.children)] = swallow(@, child)]

\* The node add_text/add_inline return a reference to: the last child of the
\* inline container of self.
LastInline(self) ==
  IF IsInlineHolder(self) THEN Last(self.children)
  ELSE Last(Last(self.children).children)

\* The caller's writes through that reference.
SetLastInline(self, child) ==
  IF IsInlineHolder(self) THEN [self EXCEPT !.children[Len(self.children)] = child]
  ELSE [self EXCEPT !.children[Len(self.children)] =
                       [@ EXCEPT !.children[Len(@.children)] = child]]

add_text(self, text) ==
  LET holder == get_inline_container(self)
      style == IF IsInlineHolder(self) THEN holder.style
               ELSE Last(holder.children).style
  IN  PushInline(self, DomBox(KText(text), style))
add_inline(self) ==
  LET holder == get_inline_container(self)
      style == IF IsInlineHolder(self) THEN holder.style
               ELSE Last(holder.children).style
  IN  PushInline(self, DomBox(Kind("Inline"), style))
add_block(self) == swallow(self, DomBox(Kind("Block"), self.style))
add_header(self, level) == swallow(self, DomBox(KHeader(level), self.style))
add_list(self, start) == swallow(self, DomBox(KList(start), self.style))
add_bullet(self) == swallow(self, DomBox(Kind("ListBullet"), self.style))
add_break(self) == swallow(self, DomBox(Kind("Break"), self.style))

\* --------------------------------------------------------------- layout

\* Vec::insert one position early.
InsertAt_before(s, i, e) ==
  LET j == IF i > 1 THEN i - 1 ELSE 1
  IN  SubSeq(s, 1, j - 1) \o <<e>> \o SubSeq(s, j, Len(s))

InsertAt(s, i, e) == SubSeq(s, 1, i - 1) \o <<e>> \o SubSeq(s, i, Len(s))
RemoveAt(s, i) == SubSeq(s, 1, i - 1) \o SubSeq(s, i + 1, Len(s))

\* Panic messages of the layout.
SubOverflow == "attempt to subtract with overflow"
AddOverflow == "attempt to add with overflow"
RejectFirst == "can't reject from first"
RejectBlock == "can't reject a"
BadListChild == "can't layout in a List"
LayoutBreak == "shouldn't layout a break"
Unimplemented == "unimplemented layout"

\* A u16 operation with exact result n: "" when n is in range, else the
\* panic of a build with overflow checks.  A build without them goes on with
\* Wrap(n): the layout below computes that run and records the first
\* overflow, which is where the checking build stops.
Overflow(n) ==
  IF InRange(n) THEN "" ELSE IF n < 0 THEN SubOverflow ELSE AddOverflow

Or(a, b) == IF a # "" THEN a ELSE b

\* The first overflow of a sequence of operations.
RECURSIVE Overflows(_)
Overflows(ops) ==
  IF ops = <<>> THEN "" ELSE Or(Overflow(Head(ops)), Overflows(Tail(ops)))

\* What a layout step leaves: the node, the caller's cursor, the LayoutRes
\* (with the continuation of a CutHere), the panic that ended it ("" when it
\* returned) and the first u16 overflow on the way ("" when none).
LayoutOut(node, cursor, res, next, e, ovf) ==
  [node |-> node, cursor |-> cursor, res |-> res, next |-> next, err |-> e,
   ovf |-> ovf]

BoxCursor(x, y, container) == [x |-> x, y |-> y, container |-> container]

\* The outer height without the borders.
OuterH_content(box) == box.size.content.h

OuterW(box) == box.size.content.w + box.size.border.left + box.size.border.right
OuterH(box) == box.size.content.h + box.size.border.top + box.size.border.bottom

\* A cut that starts one child late.
CutSibling_after(self, from) ==
  [kind |-> self.kind, size |-> self.size, style |-> self.style,
   children |-> SubSeq(self.children, from + 1, Len(self.children))]

\* The sibling a cut hands up: kind, size and style of self, and its children
\* from 1-based position `from` on.
CutSibling(self, from) ==
  [kind |-> self.kind, size |-> self.size, style |-> self.style,
   children |-> SubSeq(self.children, from, Len(self.children))]

\* A split_off that leaves the children in place.
KeepBefore_all(self, from) == self

KeepBefore(self, from) ==
  [self EXCEPT !.children = SubSeq(self.children, 1, from - 1)]

RECURSIVE layout_generic(_, _)
RECURSIVE InlineLoop(_, _, _, _, _)
RECURSIVE BlockLoop(_, _, _, _, _)
RECURSIVE ListLoop(_, _, _, _)

\* The statement after the loop of inline_children_loop (line 423).
InlineLoopEnd(self, subcursor, res, next, ovf) ==
  LET w == subcursor.x - self.size.content.x
  IN  LayoutOut([self EXCEPT !.size.content.w = Wrap(w)], subcursor, res, next,
                "", Or(ovf, Overflow(w)))

\* The while loop of inline_children_loop from index i (0-based) on.
InlineLoop(self, subcursor, i, dorej, ovf) ==
  IF i >= Len(self.children)
  THEN InlineLoopEnd(self, subcursor, "Normal", NoBox, ovf)
  ELSE IF self.children[i + 1].kind.k = "Break"
  THEN LET removed == [self EXCEPT !.children = RemoveAt(@, i + 1)]
       IN  InlineLoopEnd(KeepBefore(removed, i + 1), subcursor, "CutHere",
                         CutSibling(removed, i + 1), ovf)
  ELSE LET r == layout_generic(self.children[i + 1], subcursor)
           laid == [self EXCEPT !.children[i + 1] = r.node]
           o2 == Or(ovf, r.ovf)
       IN  IF r.err # ""
           THEN LayoutOut(laid, r.cursor, "Normal", NoBox, r.err, o2)
           ELSE IF r.res = "Normal"
           THEN InlineLoop(laid, r.cursor, i + 1, dorej, o2)
           ELSE IF r.res = "CutHere"
           THEN LET ins == [laid EXCEPT !.children = InsertAt(@, i + 2, r.next)]
                IN  InlineLoopEnd(KeepBefore(ins, i + 2), r.cursor, "CutHere",
                                  CutSibling(ins, i + 2), o2)
           ELSE IF i = 0
           THEN IF dorej
                THEN InlineLoopEnd(laid, r.cursor, "Reject", NoBox, o2)
                ELSE LayoutOut(laid, r.cursor, "Normal", NoBox, RejectFirst, o2)
           ELSE InlineLoopEnd(KeepBefore(laid, i + 1), r.cursor, "CutHere",
                              CutSibling(laid, i + 1), o2)

inline_children_loop(self, dorej) ==
  InlineLoop(self,
             BoxCursor(self.size.content.x, self.size.content.y, self.size),
             0, dorej, "")

\* The width a block-like node takes before its children are laid out
\* (lines 444-451): the exact results of its u16 operations in order, and
\* the width.
BlockWidth(self, cursor) ==
  LET cw == cursor.container.content.w
      bl == self.size.border.left
      br == self.size.border.right
      a == cw - cursor.x
      b == Wrap(a) + cursor.container.content.x
      c == Wrap(b) - bl
      d == Wrap(c) - br
      roomy == Wrap(b) > Wrap(bl + br)
  IN  [ops |-> IF roomy THEN <<a, b, bl + br, c, d>> ELSE <<a, b, bl + br>>,
       w |-> IF roomy THEN Wrap(d) ELSE 1]

\* The width List and InlineContainer take (lines 495-500, 543-548).
ContainerWidth(self, cursor) ==
  LET cw == cursor.container.content.w
      bl == self.size.border.left
      br == self.size.border.right
  IN  IF cw > Wrap(bl + br) THEN Wrap(Wrap(cw - bl) - br) ELSE 1

\* The while loop of layout_block from index i (0-based) on; it leaves h in
\* self and hands max_width on.
BlockLoop(self, subcursor, i, max_width, ovf) ==
  IF i >= Len(self.children)
  THEN [node |-> self, max_width |-> max_width, err |-> "", ovf |-> ovf]
  ELSE IF self.children[i + 1].kind.k = "Break"
  THEN BlockLoop([self EXCEPT !.children = RemoveAt(@, i + 1)], subcursor, i,
                 max_width, ovf)
  ELSE LET r == layout_generic(self.children[i + 1], subcursor)
           laid == [self EXCEPT !.children[i + 1] = r.node]
           o2 == Or(ovf, r.ovf)
       IN  IF r.err # ""
           THEN [node |-> laid, max_width |-> max_width, err |-> r.err, ovf |-> o2]
           ELSE IF r.res = "Reject"
           THEN [node |-> laid, max_width |-> max_width, err |-> RejectBlock,
                 ovf |-> o2]
           ELSE LET ins == IF r.res = "CutHere"
                           THEN [laid EXCEPT !.children = InsertAt(@, i + 2, r.next)]
                           ELSE laid
                    oh == OuterH(r.node)
                    h == ins.size.content.h + Wrap(oh)
                    ow == OuterW(r.node)
                IN  BlockLoop([ins EXCEPT !.size.content.h = Wrap(h)],
                              r.cursor, i + 1,
                              IF Wrap(ow) > max_width THEN Wrap(ow) ELSE max_width,
                              Or(o2, Overflows(<<oh, h, ow>>)))

layout_block(self, cursor) ==
  LET bw == BlockWidth(self, cursor)
      x == cursor.x + self.size.border.left
      y == cursor.y + self.size.border.top
      sized == [self EXCEPT !.size.content =
                  [x |-> Wrap(x), y |-> Wrap(y), w |-> bw.w, h |-> 0]]
      loop == BlockLoop(sized, BoxCursor(Wrap(x), Wrap(y), sized.size), 0, 0,
                        Overflows(<<x, y>> \o bw.ops))
      fitted == IF ~self.style.extend
                THEN [loop.node EXCEPT !.size.content.w = loop.max_width]
                ELSE loop.node
      ow == OuterW(fitted)
      nx == cursor.x + Wrap(ow)
      oh == OuterH(fitted)
      ny == cursor.y + Wrap(oh)
  IN  IF loop.err # ""
      THEN LayoutOut(loop.node, cursor, "Normal", NoBox, loop.err, loop.ovf)
      ELSE IF self.kind.k = "ListBullet"
      THEN LayoutOut(fitted, [cursor EXCEPT !.x = Wrap(nx)], "Normal", NoBox,
                     "", Or(loop.ovf, Overflows(<<ow, nx>>)))
      ELSE LayoutOut(fitted,
                     [cursor EXCEPT !.x = cursor.container.content.x,
                                    !.y = Wrap(ny)],
                     "Normal", NoBox, "", Or(loop.ovf, Overflows(<<oh, ny>>)))

\* The while loop of layout_list from index i (0-based) on.
ListLoop(self, subcursor, i, ovf) ==
  IF i >= Len(self.children)
  THEN [node |-> self, err |-> "", ovf |-> ovf]
  ELSE IF self.children[i + 1].kind.k \notin {"ListBullet", "Block"}
  THEN [node |-> self, err |-> BadListChild, ovf |-> ovf]
  ELSE LET r == layout_generic(self.children[i + 1], subcursor)
           laid == [self EXCEPT !.children[i + 1] = r.node]
           o2 == Or(ovf, r.ovf)
       IN  IF r.err # ""
           THEN [node |-> laid, err |-> r.err, ovf |-> o2]
           ELSE IF r.res = "Reject"
           THEN [node |-> laid, err |-> RejectBlock, ovf |-> o2]
           ELSE LET ins == IF r.res = "CutHere"
                           THEN [laid EXCEPT !.children = InsertAt(@, i + 2, r.next)]
                           ELSE laid
                    oh == OuterH(r.node)
                    h == ins.size.content.h + Wrap(oh)
                IN  IF r.node.kind.k = "ListBullet"
                    THEN ListLoop(ins, r.cursor, i + 1, o2)
                    ELSE ListLoop([ins EXCEPT !.size.content.h = Wrap(h)],
                                  r.cursor, i + 1, Or(o2, Overflows(<<oh, h>>)))

layout_list(self, cursor) ==
  LET x == cursor.x + self.size.border.left
      y == cursor.y + self.size.border.top
      sized == [self EXCEPT !.size.content =
                  [x |-> Wrap(x), y |-> Wrap(y),
                   w |-> ContainerWidth(self, cursor), h |-> 0]]
      loop == ListLoop(sized, BoxCursor(Wrap(x), Wrap(y), sized.size), 0,
                       Overflows(<<x, y>>))
      oh == OuterH(loop.node)
      ny == cursor.y + Wrap(oh)
  IN  IF loop.err # ""
      THEN LayoutOut(loop.node, cursor, "Normal", NoBox, loop.err, loop.ovf)
      ELSE LayoutOut(loop.node, [cursor EXCEPT !.y = Wrap(ny)], "Normal", NoBox,
                     "", Or(loop.ovf, Overflows(<<oh, ny>>)))

layout_inline_container(self, cursor) ==
  LET x == cursor.x + self.size.border.left
      y == cursor.y + self.size.border.top
      sized == [self EXCEPT !.size.content =
                  [x |-> Wrap(x), y |-> Wrap(y),
                   w |-> ContainerWidth(self, cursor), h |-> 1]]
      loop == inline_children_loop(sized, FALSE)
      oh == OuterH(loop.node)
      ny == cursor.y + Wrap(oh)
      o1 == Or(Overflows(<<x, y>>), loop.ovf)
  IN  IF loop.err # ""
      THEN LayoutOut(loop.node, cursor, "Normal", NoBox, loop.err, o1)
      ELSE LayoutOut(loop.node, [cursor EXCEPT !.y = Wrap(ny)], loop.res,
                     loop.next, "", Or(o1, Overflows(<<oh, ny>>)))

\* The width left for an inline node (lines 563-564): the exact results of
\* its u16 operations in order; the last one is the width.
InlineWidth(self, cursor) ==
  LET travelled == cursor.x - cursor.container.content.x
      left == cursor.container.content.w - Wrap(travelled)
      borders == self.size.border.left + self.size.border.right
  IN  <<travelled, left, borders, Wrap(left) - Wrap(borders)>>

\* A Text arm that also rejects when a single column is left.
layout_text_strict(self) ==
  LET text == self.kind.text
      tw == Wrap(StrWidth(text.s))
      avail == self.size.content.w
  IN  IF avail <= 1
      THEN [node |-> self, res |-> "Reject", next |-> NoBox]
      ELSE IF tw > avail
      THEN LET cut == split_at_in_place(text, findsplit(text.s, avail))
               head == [self EXCEPT !.kind.text = cut.head]
           IN  [node |-> head, res |-> "CutHere",
                next |-> [kind |-> KText(cut.tail), size |-> head.size,
                          style |-> head.style, children |-> <<>>]]
      ELSE [node |-> [self EXCEPT !.size.content.w = tw], res |-> "Normal",
            next |-> NoBox]

\* The Text arm of layout_inline (lines 566-582) on a node whose content.w
\* is the width left: the node and the LayoutRes.
layout_text(self) ==
  LET text == self.kind.text
      tw == Wrap(StrWidth(text.s))
      avail == self.size.content.w
  IN  IF avail = 0
      THEN [node |-> self, res |-> "Reject", next |-> NoBox]
      ELSE IF tw > avail
      THEN LET cut == split_at_in_place(text, findsplit(text.s, avail))
               head == [self EXCEPT !.kind.text = cut.head]
           IN  [node |-> head, res |-> "CutHere",
                next |-> [kind |-> KText(cut.tail), size |-> head.size,
                          style |-> head.style, children |-> <<>>]]
      ELSE [node |-> [self EXCEPT !.size.content.w = tw], res |-> "Normal",
            next |-> NoBox]

layout_inline(self, cursor) ==
  LET x == cursor.x + self.size.border.left
      y == cursor.y + self.size.border.top
      wops == InlineWidth(self, cursor)
      sized == [self EXCEPT !.size.content =
                  [x |-> Wrap(x), y |-> Wrap(y), w |-> Wrap(Last(wops)), h |-> 1]]
      t == layout_text(sized)
      loop == inline_children_loop(sized, TRUE)
      isText == self.kind.k = "Text"
      node == IF isText THEN t.node ELSE loop.node
      nx == cursor.x + node.size.content.w
      o1 == Or(Overflows(<<x, y>> \o wops), IF isText THEN "" ELSE loop.ovf)
  IN  IF ~isText /\ loop.err # ""
      THEN LayoutOut(loop.node, cursor, "Normal", NoBox, loop.err, o1)
      ELSE LayoutOut(node, [cursor EXCEPT !.x = Wrap(nx)],
                     IF isText THEN t.res ELSE loop.res,
                     IF isText THEN t.next ELSE loop.next,
                     "", Or(o1, Overflow(nx)))

layout_generic(self, cursor) ==
  CASE self.kind.k \in {"Block", "ListBullet", "Header"} -> layout_block(self, cursor)
    [] self.kind.k = "InlineContainer" -> layout_inline_container(self, cursor)
    [] self.kind.k = "List" -> layout_list(self, cursor)
    [] self.kind.k \in {"Text", "Inline"} -> layout_inline(self, cursor)
    [] self.kind.k = "Break" -> LayoutOut(self, cursor, "Normal", NoBox, LayoutBreak, "")
    [] OTHER -> LayoutOut(self, cursor, "Normal", NoBox, Unimplemented, "")

layout(self) == layout_generic(self, BoxCursor(0, 0, self.size))

\* ---------------------------------------------------------------- events

Event(ev, tag, n, text) == [ev |-> ev, tag |-> tag, n |-> n, text |-> text]
Start(tag) == Event("Start", tag, 0, NoText)
End(tag) == Event("End", tag, 0, NoText)
StartHeader(level) == Event("Start", "Header", level, NoText)
EndHeader(level) == Event("End", "Header", level, NoText)
StartList(start) == Event("Start", "List", start, NoText)
EndList(start) == Event("End", "List", start, NoText)
StartCodeBlock(info) == Event("Start", "CodeBlock", 0, Borrowed(info))
EndCodeBlock(info) == Event("End", "CodeBlock", 0, Borrowed(info))
StartLink(dest) == Event("Start", "Link", 0, Borrowed(dest))
StartFootnote(name) == Event("Start", "FootnoteDefinition", 0, Borrowed(name))
EndFootnote(name) == Event("End", "FootnoteDefinition", 0, Borrowed(name))
EndLink(dest) == Event("End", "Link", 0, Borrowed(dest))
Text(s) == Event("Text", "", 0, Borrowed(s))
Html(s) == Event("Html", "", 0, Borrowed(s))
InlineHtml(s) == Event("InlineHtml", "", 0, Borrowed(s))
SoftBreak == Event("SoftBreak", "", 0, NoText)
HardBreak == Event("HardBreak", "", 0, NoText)

LF == "U+000A"

\* ----------------------------------------------------------------- build

\* One build_dom call in progress: the node it was handed as `parent`, and
\* the Start tag whose arm made the call ("" for the call made by build).
Frame(node, tag) == [node |-> node, tag |-> tag]

Top == stack[Len(stack)]
Parent == Top.node
WithParent(node) == [stack EXCEPT ![Len(stack)].node = node]

\* The stack after the arm of a Start pushed `child` as the last child of the
\* parent (now `parent`) and called build_dom on it.
Call(parent, child, tag) == Append(WithParent(parent), Frame(child, tag))

Digits == <<"0", "1", "2", "3", "4", "5", "6", "7", "8", "9">>
RECURSIVE to_string(_)
to_string(i) ==
  IF i < 10 THEN <<Digits[i + 1]>> ELSE to_string(i \div 10) \o <<Digits[(i % 10) + 1]>>

\* The label of a loop that never advances its counter.
BulletLabel_first(start, k) ==
  IF start = NoStart THEN Borrowed(<<"*">>) ELSE Owned(to_string(start))

\* The label the End of a List gives its k-th bullet (k from 0).
BulletLabel(start, k) ==
  IF start = NoStart THEN Borrowed(<<"*">>) ELSE Owned(to_string(start + k))

\* The End(List) arm (lines 952-975): every ListBullet child of the parent
\* gets its label.
RECURSIVE LabelBullets(_, _, _, _)
LabelBullets(parent, start, i, k) ==
  IF i > Len(parent.children) THEN parent
  ELSE IF parent.children[i].kind.k = "ListBullet"
  THEN LabelBullets([parent EXCEPT !.children[i] = add_text(@, BulletLabel(start, k))],
                    start, i + 1, k + 1)
  ELSE LabelBullets(parent, start, i + 1, k)

\* The "newline" block pushed after a BlockQuote and a CodeBlock.
AddNewline(parent) ==
  LET p == add_block(parent)
  IN  [p EXCEPT !.children[Len(p.children)] = add_text(@, Borrowed(<<>>))]

SetLastChild(parent, child) == [parent EXCEPT !.children[Len(parent.children)] = child]

\* What the arm of Start(tag) does to the parent once build_dom(child) has
\* returned; `child` is what the call left of the node it was handed.
AfterCall(parent, child, tag) ==
  CASE tag = "Paragraph" ->
         SetLastChild(parent, [child EXCEPT !.size.border.bottom = 1])
    [] tag = "BlockQuote" ->
         AddNewline(SetLastChild(parent,
           [child EXCEPT !.size.border.left = 1,
                         !.style.border_type = "Thin",
                         !.style.fg = from_dark(Cyan)]))
    [] tag = "CodeBlock" -> AddNewline(SetLastChild(parent, child))
    [] tag = "List" ->
         SetLastChild(parent, [child EXCEPT !.size.border.bottom = 1])
    [] tag \in {"Emphasis", "Strong", "Code", "Link"} -> SetLastInline(parent, child)
    [] OTHER -> SetLastChild(parent, child)

\* build, lines 761-767, once build_dom(&mut root) has returned.
Finish(r) == swallow(swallow(r, links), footnotes)

Building == pc = "build" /\ pos < Len(input)
Next_event == input[pos + 1]

\* `break` out of the loop of build_dom: the innermost call returns, to the
\* arm that made it or to build.
Return(parent) ==
  IF Len(stack) = 1
  THEN /\ root' = Finish(parent)
       /\ built' = Finish(parent)
       /\ links' = NoBox
       /\ footnotes' = NoBox
       /\ stack' = <<>>
       /\ pc' = "built"
  ELSE IF Top.tag = "FootnoteDefinition"
  THEN /\ stack' = SubSeq(stack, 1, Len(stack) - 1)
       /\ footnotes' = parent
       /\ UNCHANGED <<root, built, links, pc>>
  ELSE /\ stack' = [SubSeq(stack, 1, Len(stack) - 1) EXCEPT
                      ![Len(stack) - 1].node = AfterCall(@, parent, Top.tag)]
       /\ UNCHANGED <<root, built, links, footnotes, pc>>

\* Ctx::build up to its call of build_dom (lines 757-760).
BuildBegin ==
  /\ pc = "new"
  /\ \E w \in Budgets :
       /\ width' = w
       /\ stack' = <<Frame(new_root(w), "")>>
  /\ links' = new_block
  /\ footnotes' = new_block
  /\ pc' = "build"
  /\ UNCHANGED <<call, ret, input, pos, syntax, highline, root, built,
                 overflowed, out, err>>

StartParagraph ==
  /\ Building /\ Next_event = Start("Paragraph")
  /\ pos' = pos + 1
  /\ LET p == add_block(Parent)
     IN  stack' = Call(p, Last(p.children), "Paragraph")
  /\ UNCHANGED <<call, ret, input, pc, links, footnotes, syntax, highline,
                 root, width, built, overflowed, out, err>>

StartRule ==
  /\ Building /\ Next_event = Start("Rule")
  /\ pos' = pos + 1
  /\ LET p == add_block(Parent)
     IN  stack' = WithParent(SetLastChild(p,
           [Last(p.children) EXCEPT !.style.extend = TRUE,
                                    !.size.border.bottom = 1,
                                    !.style.border_type = "Thin",
                                    !.style.fg = from_dark(Yellow)]))
  /\ UNCHANGED <<call, ret, input, pc, links, footnotes, syntax, highline,
                 root, width, built, overflowed, out, err>>

HeaderBorder(level) ==
  CASE level = 1 -> "Thin" [] level = 2 -> "Bold" [] level = 3 -> "Double"
    [] level = 4 -> "Thin" [] level = 5 -> "Dash" [] OTHER -> "Empty"

StartHeaderEv ==
  /\ Building /\ Next_event.ev = "Start" /\ Next_event.tag = "Header"
  /\ pos' = pos + 1
  /\ LET level == Next_event.n
         p == add_header(Parent, level)
         c == Last(p.children)
         edges == IF level = 1
                  THEN [top |-> 1, bottom |-> 1, left |-> 1, right |-> 1]
                  ELSE [c.size.border EXCEPT !.bottom = 1]
         child == [c EXCEPT !.size.border = edges,
                            !.style.border_type = HeaderBorder(level),
                            !.style.fg = from_dark(Purple)]
     IN  IF level \in 1..6
         THEN /\ stack' = Call(SetLastChild(p, child), child, "Header")
              /\ UNCHANGED <<pc, err>>
         ELSE /\ pc' = "panic" /\ err' = "wrong heading size"
              /\ UNCHANGED stack
  /\ UNCHANGED <<call, ret, input, links, footnotes, syntax, highline,
                 root, width, built, overflowed, out>>

StartBlockQuote ==
  /\ Building /\ Next_event = Start("BlockQuote")
  /\ pos' = pos + 1
  /\ LET p == add_block(Parent)
     IN  stack' = Call(p, Last(p.children), "BlockQuote")
  /\ UNCHANGED <<call, ret, input, pc, links, footnotes, syntax, highline,
                 root, width, built, overflowed, out, err>>

StartListEv ==
  /\ Building /\ Next_event.ev = "Start" /\ Next_event.tag = "List"
  /\ pos' = pos + 1
  /\ LET p == add_list(Parent, Next_event.n)
     IN  stack' = Call(p, Last(p.children), "List")
  /\ UNCHANGED <<call, ret, input, pc, links, footnotes, syntax, highline,
                 root, width, built, overflowed, out, err>>

StartItem ==
  /\ Building /\ Next_event = Start("Item")
  /\ pos' = pos + 1
  /\ LET b == add_bullet(Parent)
         bullet == [Last(b.children) EXCEPT !.style.fg = from_light(Yellow),
                                            !.size.border.right = 1]
         p == add_block(SetLastChild(b, bullet))
     IN  stack' = Call(p, Last(p.children), "Item")
  /\ UNCHANGED <<call, ret, input, pc, links, footnotes, syntax, highline,
                 root, width, built, overflowed, out, err>>

\* The style the arm of an inline Start gives the span it pushed.
SpanStyle(tag, style) ==
  CASE tag = "Emphasis" -> [style EXCEPT !.italic = TRUE]
    [] tag = "Strong" -> [style EXCEPT !.bold = TRUE]
    [] tag = "Code" -> [style EXCEPT !.code = TRUE, !.fg = from_dark(White),
                                     !.bg = from_dark(Black)]
    [] OTHER -> [style EXCEPT !.underline = TRUE, !.fg = from_dark(Blue)]

\* parent after add_inline and the arm's writes to the span's style.
AddSpan(parent, tag) ==
  LET p == add_inline(parent)
  IN  SetLastInline(p, [LastInline(p) EXCEPT !.style = SpanStyle(tag, @)])

\* Emphasis, Strong, Code (lines 868-884).
StartInline ==
  /\ Building /\ Next_event.ev = "Start"
  /\ Next_event.tag \in {"Emphasis", "Strong", "Code"}
  /\ pos' = pos + 1
  /\ LET p == AddSpan(Parent, Next_event.tag)
     IN  stack' = Call(p, LastInline(p), Next_event.tag)
  /\ UNCHANGED <<call, ret, input, pc, links, footnotes, syntax, highline,
                 root, width, built, overflowed, out, err>>

\* links after the Link arm pushed the destination and a Break (lines 886-896).
AddLink(l, dest) ==
  LET t == add_text(l, dest)
  IN  add_break(SetLastInline(t,
        [LastInline(t) EXCEPT !.style.fg = from_dark(Blue),
                              !.style.underline = TRUE]))

StartLinkEv ==
  /\ Building /\ Next_event.ev = "Start" /\ Next_event.tag = "Link"
  /\ pos' = pos + 1
  /\ links' = IF links = NoBox THEN links ELSE AddLink(links, Next_event.text)
  /\ LET p == AddSpan(Parent, "Link")
     IN  stack' = Call(p, LastInline(p), "Link")
  /\ UNCHANGED <<call, ret, input, pc, footnotes, syntax, highline,
                 root, width, built, overflowed, out, err>>

\* The label Start(FootnoteDefinition) pushes into the footnotes block.
AddFootnote(f, name) ==
  LET t == add_text(f, name)
  IN  SetLastInline(t, [LastInline(t) EXCEPT !.style.fg = from_dark(Green),
                                             !.style.underline = TRUE])

\* Start(FootnoteDefinition) (lines 918-928): when the footnotes block is
\* there it is taken, labelled and built into, and put back on return; when
\* it is taken already (a definition inside a definition) the arm does
\* nothing and makes no call.
StartFootnoteEv ==
  /\ Building /\ Next_event.ev = "Start"
  /\ Next_event.tag = "FootnoteDefinition"
  /\ pos' = pos + 1
  /\ IF footnotes # NoBox
     THEN /\ stack' = Append(stack, Frame(AddFootnote(footnotes, Next_event.text),
                                          "FootnoteDefinition"))
          /\ footnotes' = NoBox
     ELSE UNCHANGED <<stack, footnotes>>
  /\ UNCHANGED <<call, ret, input, pc, links, syntax, highline,
                 root, width, built, overflowed, out, err>>

\* Html and InlineHtml (lines 1063-1070): the text as it came, in light red.
HtmlEv ==
  /\ Building /\ Next_event.ev \in {"Html", "InlineHtml"}
  /\ pos' = pos + 1
  /\ LET p == add_text(Parent, Next_event.text)
     IN  stack' = WithParent(SetLastInline(p,
                    [LastInline(p) EXCEPT !.style.fg = from_light(Red)]))
  /\ UNCHANGED <<call, ret, input, pc, links, footnotes, syntax, highline,
                 root, width, built, overflowed, out, err>>

\* SoftBreak and HardBreak (lines 1071-1076).
BreakEv ==
  /\ Building /\ Next_event.ev \in {"SoftBreak", "HardBreak"}
  /\ pos' = pos + 1
  /\ stack' = WithParent(add_break(Parent))
  /\ UNCHANGED <<call, ret, input, pc, links, footnotes, syntax, highline,
                 root, width, built, overflowed, out, err>>

\* Whether the string ends with a newline (lines 1046-1052).
EndsWithNewline(s) == Len(s) > 0 /\ s[Len(s)] = LF

\* The Text arm without a highlighter (lines 1045-1060).
PlainText(parent, text) ==
  LET add_break_ == EndsWithNewline(text.s)
      kept == IF add_break_ THEN split_at_in_place(text, Len(text.s) - 1).head
              ELSE text
      p == add_text(parent, kept)
  IN  IF add_break_ THEN add_break(p) ELSE p

\* Ends that leave the loop running: Rule (line 936).
EndRule ==
  /\ Building /\ Next_event = End("Rule")
  /\ pos' = pos + 1
  /\ UNCHANGED <<call, ret, input, pc, stack, links, footnotes, syntax,
                 highline, root, width, built, overflowed, out, err>>

\* End(List) (lines 952-975): the bullets are labelled, then break.
EndListEv ==
  /\ Building /\ Next_event.ev = "End" /\ Next_event.tag = "List"
  /\ pos' = pos + 1
  /\ Return(LabelBullets(Parent, Next_event.n, 1, 0))
  /\ UNCHANGED <<call, ret, input, syntax, highline, width, overflowed, out,
                 err>>

\* End(CodeBlock) that only breaks.
EndCodeBlockEv_keeps ==
  /\ Building /\ Next_event.ev = "End" /\ Next_event.tag = "CodeBlock"
  /\ pos' = pos + 1
  /\ Return(Parent)
  /\ UNCHANGED <<call, ret, input, syntax, highline, width, overflowed, out, err>>

\* End(CodeBlock) (lines 947-951): the highlighter is dropped, then break.
EndCodeBlockEv ==
  /\ Building /\ Next_event.ev = "End" /\ Next_event.tag = "CodeBlock"
  /\ pos' = pos + 1
  /\ highline' = FALSE
  /\ syntax' = <<>>
  /\ Return(Parent)
  /\ UNCHANGED <<call, ret, input, width, overflowed, out, err>>

\* The other Ends: break.
EndEv ==
  /\ Building /\ Next_event.ev = "End"
  /\ Next_event.tag \in {"Paragraph", "Header", "BlockQuote", "Item", "Emphasis",
                         "Strong", "Code", "Link", "FootnoteDefinition"}
  /\ pos' = pos + 1
  /\ Return(Parent)
  /\ UNCHANGED <<call, ret, input, syntax, highline, width, overflowed, out,
                 err>>

\* iter.next() returns None (line 1084): break.
EndOfStream ==
  /\ pc = "build" /\ pos = Len(input)
  /\ Return(Parent)
  /\ UNCHANGED <<call, ret, input, pos, syntax, highline, width, overflowed,
                 out, err>>


\* The language tokens SyntaxSet::find_syntax_by_token resolves.
KnownSyntaxes == {<<"r", "s">>}

StartCodeBlockEv ==
  /\ Building /\ Next_event.ev = "Start" /\ Next_event.tag = "CodeBlock"
  /\ pos' = pos + 1
  /\ LET p == add_block(Parent)
         child == [Last(p.children) EXCEPT !.style.code = TRUE,
                                           !.style.fg = from_dark(White),
                                           !.style.bg = from_dark(Black)]
     IN  stack' = Call(SetLastChild(p, child), child, "CodeBlock")
  /\ syntax' = IF Next_event.text.s \in KnownSyntaxes THEN Next_event.text.s ELSE <<>>
  /\ highline' = IF Next_event.text.s \in KnownSyntaxes THEN TRUE ELSE highline
  /\ UNCHANGED <<call, ret, input, pc, links, footnotes, root, width,
                 built, overflowed, out, err>>

\* What HighlightLines::highlight may return for a line: one or two ranges
\* that concatenate to the line, each with a style of the theme.
ThemeStyles ==
  {[r |-> 200, g |-> 40, b |-> 40, bold |-> TRUE, italic |-> FALSE, underline |-> FALSE],
   [r |-> 210, g |-> 215, b |-> 220, bold |-> FALSE, italic |-> FALSE, underline |-> FALSE]}

Highlightings(line) ==
  {<<[style |-> st, text |-> line]>> : st \in ThemeStyles}
  \cup {<<[style |-> st1, text |-> SubSeq(line, 1, k)],
          [style |-> st2, text |-> SubSeq(line, k + 1, Len(line))]>> :
        st1 \in ThemeStyles, st2 \in ThemeStyles, k \in 1..(Len(line) - 1)}

\* The Text arm under a highlighter, one range (lines 1004-1037).
HighlightedRange(parent, range) ==
  LET add_break_ == EndsWithNewline(range.text)
      text == IF add_break_ THEN SubSeq(range.text, 1, Len(range.text) - 1)
              ELSE range.text
      p == add_text(parent, Borrowed(text))
      st == range.style
      styled == SetLastInline(p,
                  [LastInline(p) EXCEPT
                     !.style.fg = from_color(st.r, st.g, st.b),
                     !.style.bold = @ \/ st.bold,
                     !.style.italic = @ \/ st.italic,
                     !.style.underline = @ \/ st.underline])
  IN  IF add_break_ THEN add_break(styled) ELSE styled

RECURSIVE HighlightedText(_, _)
HighlightedText(parent, ranges) ==
  IF ranges = <<>> THEN parent
  ELSE HighlightedText(HighlightedRange(parent, Head(ranges)), Tail(ranges))

\* Text (lines 999-1062).
TextEv ==
  /\ Building /\ Next_event.ev = "Text"
  /\ pos' = pos + 1
  /\ IF highline /\ Next_event.text.owned
     THEN /\ pc' = "panic" /\ err' = "not yet implemented"
          /\ UNCHANGED stack
     ELSE /\ \E ranges \in IF highline THEN Highlightings(Next_event.text.s)
                           ELSE {<<>>} :
               stack' = WithParent(IF highline
                                   THEN HighlightedText(Parent, ranges)
                                   ELSE PlainText(Parent, Next_event.text))
          /\ UNCHANGED <<pc, err>>
  /\ UNCHANGED <<call, ret, input, links, footnotes, syntax, highline,
                 root, width, built, overflowed, out>>

\* DomBox::layout on the root (push_ansi, line 1096).  A build with overflow
\* checks panics at the first u16 overflow; one without goes on with the
\* wrapped value.
Layout ==
  /\ pc = "built"
  /\ \E checks \in BOOLEAN :
       LET r == layout(root)
           e == IF checks /\ r.ovf # "" THEN r.ovf ELSE r.err
       IN  /\ root' = IF e = "" THEN r.node ELSE root
           /\ overflowed' = r.ovf
           /\ err' = e
           /\ pc' = IF e = "" THEN "laid" ELSE "panic"
  /\ UNCHANGED <<call, ret, input, pos, stack, links, footnotes, syntax, highline, width,
                 built, out>>

\* --------------------------------------------------------------- render

\* DomStyle::to_ansi: the ansi_term Style.
to_ansi(style) ==
  [fg |-> style.fg, bg |-> style.bg, bold |-> style.bold,
   underline |-> style.underline, strikethrough |-> style.strikethrough,
   italic |-> style.italic]

\* Style::paint: an ANSIString.
Paint(style, str) == [style |-> style, s |-> str]

Repeat(c, n) == [i \in 1..n |-> c]

AssertFailed == "assertion failed"

\* What a rendering step leaves: the strings, the span (start, len) it
\* returns and the panic that ended it.
RenderOut(strings, start, len, e) ==
  [strings |-> strings, start |-> start, len |-> len, err |-> e]

HorizontalGlyph(border_type) ==
  CASE border_type = "Empty" -> " "
    [] border_type = "Dash" -> "U+254C"
    [] border_type = "Thin" -> "U+2500"
    [] border_type = "Double" -> "U+2550"
    [] OTHER -> "U+2501"

VerticalGlyph(border_type) ==
  CASE border_type = "Empty" -> " "
    [] border_type = "Dash" -> "U+254E"
    [] border_type = "Thin" -> "U+2502"
    [] border_type = "Double" -> "U+2551"
    [] OTHER -> "U+2503"

\* The span every rendering path returns (lines 643-644, 682-683).
Span(self) ==
  [start |-> Wrap(self.size.content.x - self.size.border.left),
   len |-> Wrap(OuterW(self))]

render_borderline(self, line, strings) ==
  LET is_top == line < self.size.content.y
      str == Repeat(IF is_top THEN "U+250C" ELSE "U+2514", self.size.border.left)
             \o Repeat(HorizontalGlyph(self.style.border_type), self.size.content.w)
             \o Repeat(IF is_top THEN "U+2510" ELSE "U+2518", self.size.border.right)
  IN  RenderOut(Append(strings, Paint(to_ansi(self.style), str)),
                Span(self).start, Span(self).len, "")

render_borderside(self, is_left, strings) ==
  LET w == IF is_left THEN self.size.border.left ELSE self.size.border.right
  IN  Append(strings,
             Paint(to_ansi(self.style), Repeat(VerticalGlyph(self.style.border_type), w)))

\* strings after render_charline; insert is the 0-based index, or NoInsert.
NoInsert == 0 - 1
render_charline(self, c, n, insert, strings) ==
  LET str == Paint(to_ansi(self.style), Repeat(c, n))
  IN  IF insert # NoInsert /\ insert > Len(strings)
      THEN strings \* Vec::insert panics; reported by the caller
      ELSE IF insert # NoInsert THEN InsertAt(strings, insert + 1, str)
      ELSE Append(strings, str)

RECURSIVE render_line(_, _, _)
RECURSIVE RenderChildren(_, _, _, _, _)

\* The statements after the match of render_line (lines 636-644).
RenderLineEnd(self, p, strings) ==
  LET right == Wrap(self.size.content.x + self.size.content.w)
      padded == IF p < right
                THEN render_charline(self, " ", Wrap(right - p), NoInsert, strings)
                ELSE strings
  IN  RenderOut(render_borderside(self, FALSE, padded), Span(self).start,
                Span(self).len, "")

\* The for loop over the children (lines 620-632) from child i (1-based) on,
\* then the rest of render_line.
RenderChildren(self, line, i, p, strings) ==
  LET right == Wrap(self.size.content.x + self.size.content.w)
  IN  IF i > Len(self.children)
      THEN IF p <= right THEN RenderLineEnd(self, p, strings)
           ELSE RenderOut(strings, 0, 0, AssertFailed)
      ELSE LET insert_point == Wrap(Len(strings))
               r == render_line(self.children[i], line, strings)
               done == Wrap(r.start + r.len)
           IN  IF r.err # "" THEN r
               ELSE IF r.len = 0 THEN RenderChildren(self, line, i + 1, p, r.strings)
               ELSE IF ~(r.start >= p) \/ ~(done <= right)
               THEN RenderOut(r.strings, 0, 0, AssertFailed)
               ELSE IF r.start > p
               THEN IF insert_point > Len(r.strings)
                    THEN RenderOut(r.strings, 0, 0, "insertion index out of bounds")
                    ELSE RenderChildren(self, line, i + 1, done,
                           render_charline(self, " ", Wrap(r.start - p),
                                           insert_point, r.strings))
               ELSE RenderChildren(self, line, i + 1, done, r.strings)

render_line(self, line, strings) ==
  LET y == self.size.content.y
      bottom == Wrap(Wrap(y + self.size.content.h) + self.size.border.bottom)
      left == render_borderside(self, TRUE, strings)
      p == Wrap(self.size.content.x + StrWidth(self.kind.text.s))
  IN  IF line < Wrap(y - self.size.border.top) \/ line >= bottom
      THEN RenderOut(strings, 0, 0, "")
      ELSE IF line < y \/ line >= Wrap(y + self.size.content.h)
      THEN render_borderline(self, line, strings)
      ELSE IF self.kind.k = "Text"
      THEN IF p <= Wrap(self.size.content.x + self.size.content.w)
           THEN RenderLineEnd(self, p,
                  Append(left, Paint(to_ansi(self.style), self.kind.text.s)))
           ELSE RenderOut(left, 0, 0, AssertFailed)
      ELSE RenderChildren(self, line, 1, self.size.content.x, left)

Newline == Paint(to_ansi(DefaultStyle), <<LF>>)

\* The for loop of render from row `line` on.
RECURSIVE RenderRows(_, _, _)
RenderRows(self, line, strings) ==
  IF line >= Wrap(OuterH(self)) THEN RenderOut(strings, 0, 0, "")
  ELSE LET r == render_line(self, line, strings)
       IN  IF r.err # "" THEN r
           ELSE RenderRows(self, line + 1, Append(r.strings, Newline))

\* DomBox::render: what println! writes, string by string; the last one is
\* the newline println! adds.
render(self) ==
  LET r == RenderRows(self, 0, <<>>)
  IN  IF r.err # "" THEN r ELSE [r EXCEPT !.strings = Append(@, Newline)]

\* A render that moves the children out of the root as it prints them.
Render_taking ==
  /\ pc = "laid"
  /\ LET r == render(root)
     IN  /\ out' = IF r.err = "" THEN r.strings ELSE <<>>
         /\ err' = r.err
         /\ pc' = IF r.err = "" THEN "rendered" ELSE "panic"
  /\ root' = [root EXCEPT !.children = <<>>]
  /\ UNCHANGED <<call, ret, input, pos, stack, links, footnotes, syntax,
                 highline, width, built, overflowed>>

\* DomBox::render on the root (push_ansi, line 1098).
Render ==
  /\ pc = "laid"
  /\ LET r == render(root)
     IN  /\ out' = IF r.err = "" THEN r.strings ELSE <<>>
         /\ err' = r.err
         /\ pc' = IF r.err = "" THEN "rendered" ELSE "panic"
  /\ UNCHANGED <<call, ret, input, pos, stack, links, footnotes, syntax,
                 highline, root, width, built, overflowed>>


\* ---------------------------------------------------------------- inputs

Concat(A, B) == {a \o b : a \in A, b \in B}
AtMost(S, n) == {s \in S : Len(s) <= n}
Wrapped(open, S, close) == {<<open>> \o s \o <<close>> : s \in S}

\* Strings of the inputs.
HelloWorld == <<"h", "e", "l", "l", "o", " ", "w", "o", "r", "l", "d">>
Wide2 == <<"U+4E16", "U+4E16">>
Accented == <<"e", "U+0301", "x", "y">>
ZeroWidth == <<"a", "U+200B", "b">>
Example == <<"u", "r", "l">>

\* Inline family: one paragraph whose inline content is any sequence of at
\* most n events out of short texts, soft breaks and (nested) spans.
InlineLeaves ==
  {<<Text(<<"a", "b">>)>>, <<Text(<<"a", "b", "c", "d">>)>>, <<SoftBreak>>}

RECURSIVE InlineSeqs(_)
InlineItems(n) ==
  (IF n >= 1 THEN InlineLeaves ELSE {})
  \cup (IF n >= 2
        THEN Wrapped(Start("Emphasis"), InlineSeqs(n - 2), End("Emphasis"))
             \cup Wrapped(StartLink(Example), InlineSeqs(n - 2), EndLink(Example))
        ELSE {})
InlineSeqs(n) ==
  IF n <= 0 THEN {<<>>}
  ELSE {<<>>} \cup AtMost(Concat(InlineItems(n), InlineSeqs(n - 1)), n)

InlineFamily ==
  Wrapped(Start("Paragraph"), InlineSeqs(MaxInlineEvents), End("Paragraph"))

\* Block family: any sequence of at most n events of paragraphs, headers,
\* rules, block quotes and lists of items, with at most one short text as
\* inline content.
ShortInline == {<<>>, <<Text(<<"a">>)>>}
ListStarts == {NoStart, 9}

RECURSIVE BlockSeqs(_)
RECURSIVE ItemSeqs(_)
BlockItems(n) ==
  (IF n >= 2
   THEN AtMost(Wrapped(Start("Paragraph"), ShortInline, End("Paragraph")), n)
        \cup AtMost(Wrapped(StartHeader(1), ShortInline, EndHeader(1)), n)
        \cup {<<Start("Rule"), End("Rule")>>}
        \cup Wrapped(Start("BlockQuote"), BlockSeqs(n - 2), End("BlockQuote"))
        \cup UNION {Wrapped(StartList(st), ItemSeqs(n - 2), EndList(st)) :
                    st \in ListStarts}
   ELSE {})
BlockSeqs(n) ==
  IF n <= 0 THEN {<<>>}
  ELSE {<<>>} \cup AtMost(Concat(BlockItems(n), BlockSeqs(n - 2)), n)
ItemSeqs(n) ==
  IF n <= 1 THEN {<<>>}
  ELSE {<<>>}
       \cup AtMost(Concat(Wrapped(Start("Item"),
                                  AtMost(BlockSeqs(n - 2) \cup ShortInline, n - 2),
                                  End("Item")),
                          ItemSeqs(n - 2)), n)

BlockFamily == BlockSeqs(MaxBlockEvents)

Paragraph(inline) == <<Start("Paragraph")>> \o inline \o <<End("Paragraph")>>
Quote(blocks) == <<Start("BlockQuote")>> \o blocks \o <<End("BlockQuote")>>
Item(content) == <<Start("Item")>> \o content \o <<End("Item")>>
Unordered(items) == <<StartList(NoStart)>> \o items \o <<EndList(NoStart)>>
Ordered(start, items) == <<StartList(start)>> \o items \o <<EndList(start)>>

\* The end-to-end scenarios of the specification and the documents its
\* error-handling section names.
Scenarios ==
  {Paragraph(<<Text(t)>>) :
     t \in {<<>>, HelloWorld, Wide2, Accented, ZeroWidth, <<"a", "b", "c">>,
            <<"a", LF>>}}
  \cup {Unordered(Item(<<>>) \o Item(<<Text(<<"a">>)>>)),
        Unordered(Item(<<Text(<<"a">>)>>) \o Item(<<>>)),
        Ordered(1, Item(<<Text(<<"a">>)>>) \o Item(<<Text(<<"b">>)>>)
                   \o Item(<<Text(<<"c">>)>>)),
        Ordered(9, Item(<<Text(<<"a">>)>>) \o Item(<<Text(<<"b">>)>>)),
        Unordered(Item(Unordered(Item(<<Text(<<"a">>)>>)))),
        Quote(Quote(Paragraph(<<Text(<<"a">>)>>))),
        Quote(Quote(Quote(<<>>))),
        Paragraph(<<Text(<<"a", "b">>), Start("Strong"), Text(<<"c", "d">>),
                    HardBreak, Text(<<"e">>), End("Strong"), Text(<<"f">>)>>),
        Paragraph(<<Start("Code"), Start("Emphasis"), Text(<<"a", "b", "c">>),
                    End("Emphasis"), End("Code")>>),
        <<StartCodeBlock(<<"r", "s">>), Text(<<"a", "b", LF>>),
          EndCodeBlock(<<"r", "s">>), Start("Paragraph"), Text(<<"c">>),
          End("Paragraph")>>,
        <<StartCodeBlock(<<"z">>), Text(<<"a", LF>>), Text(<<"b", LF>>),
          EndCodeBlock(<<"z">>)>>,
        <<StartCodeBlock(<<"r", "s">>),
          Event("Text", "", 0, Owned(<<"a", LF>>)),
          EndCodeBlock(<<"r", "s">>)>>,
        <<StartHeader(7), EndHeader(7)>>,
        Paragraph(<<StartLink(Example), Text(<<"a">>), EndLink(Example)>>)
          \o Unordered(Item(<<StartLink(<<"x">>), EndLink(<<"x">>)>>)),
        <<StartFootnote(<<"n">>)>>
          \o Paragraph(<<StartLink(Example), Text(<<"a">>), EndLink(Example)>>)
          \o <<EndFootnote(<<"n">>)>> \o Paragraph(<<Text(<<"b">>)>>),
        <<StartFootnote(<<"n">>), StartFootnote(<<"m">>), EndFootnote(<<"m">>),
          EndFootnote(<<"n">>)>>
          \o Paragraph(<<StartLink(Example), Text(<<"a">>), EndLink(Example)>>),
        <<StartCodeBlock(<<"r", "s">>), StartCodeBlock(<<"z">>), Text(<<"a", LF>>),
          EndCodeBlock(<<"z">>), Text(<<"b", LF>>), EndCodeBlock(<<"r", "s">>)>>,
        <<Html(<<"<", "p", ">", LF>>)>>,
        <<Html(<<"<", "p", ">", LF>>), Html(<<"<", "i", ">", LF>>)>>,
        Paragraph(<<Text(<<"a">>), InlineHtml(<<"<", "b", ">">>), Text(<<"b">>)>>)}

Streams == BlockFamily \cup InlineFamily \cup Scenarios

\* ------------------------------------------------------- specification

\* Ctx::new (lines 744-755).
Init ==
  /\ input \in Streams
  /\ pos = 0
  /\ pc = "new"
  /\ stack = <<>>
  /\ links = NoBox
  /\ footnotes = NoBox
  /\ syntax = <<>>
  /\ highline = FALSE
  /\ root = NoBox
  /\ width = 0
  /\ built = NoBox
  /\ overflowed = ""
  /\ out = <<>>
  /\ err = ""
  /\ call = NoCall
  /\ ret = NotReturned

Next ==
  \/ BuildBegin
  \/ StartParagraph
  \/ StartRule
  \/ StartHeaderEv
  \/ StartBlockQuote
  \/ StartCodeBlockEv
  \/ StartListEv
  \/ StartItem
  \/ StartInline
  \/ StartLinkEv
  \/ StartFootnoteEv
  \/ EndRule
  \/ EndListEv
  \/ EndCodeBlockEv
  \/ EndEv
  \/ TextEv
  \/ HtmlEv
  \/ BreakEv
  \/ EndOfStream
  \/ Layout
  \/ Render

Spec == Init /\ [][Next]_vars

\* ------------------------------------------------------ reading a state

Done == pc \in {"laid", "rendered"}

RECURSIVE Flatten(_)
Flatten(seqs) == IF seqs = <<>> THEN <<>> ELSE Head(seqs) \o Flatten(Tail(seqs))

\* A node and everything below it.
RECURSIVE Nodes(_)
Nodes(box) ==
  {box} \cup UNION {Nodes(box.children[i]) : i \in 1..Len(box.children)}

\* The strings of the Text nodes below a node, depth first.
RECURSIVE TextOf(_)
TextOf(box) ==
  IF box.kind.k = "Text" THEN box.kind.text.s
  ELSE Flatten([i \in 1..Len(box.children) |-> TextOf(box.children[i])])

RECURSIVE CountKind(_, _)
CountKind(box, k) ==
  LET below == [i \in 1..Len(box.children) |-> CountKind(box.children[i], k)]
      Sum[i \in 0..Len(below)] == IF i = 0 THEN 0 ELSE Sum[i - 1] + below[i]
  IN  (IF box.kind.k = k THEN 1 ELSE 0) + Sum[Len(below)]

\* The rows of a printed text: the characters before each line feed.
RECURSIVE SplitRows(_, _, _)
SplitRows(chars, row, rows) ==
  IF chars = <<>> THEN rows
  ELSE IF Head(chars) = LF THEN SplitRows(Tail(chars), <<>>, Append(rows, row))
  ELSE SplitRows(Tail(chars), Append(row, Head(chars)), rows)

\* The rows DomBox::render returns, before the newline println! adds.
Rows(strings) ==
  SplitRows(Flatten([i \in 1..Len(strings) - 1 |-> strings[i].s]), <<>>, <<>>)

Spaces(n) == Repeat(" ", n)

\* The cursor a child of `parent` was laid out with, read back from the
\* finished tree: the child starts one left border after it, and the
\* container had width lw while its children were laid out.
CursorOf(parent, lw, child) ==
  BoxCursor(child.size.content.x - child.size.border.left, 0,
            [parent.size EXCEPT !.content.w = lw])

\* The width a child of `parent` had available during layout.
WidthFor(parent, lw, child) ==
  LET cursor == CursorOf(parent, lw, child)
  IN  IF child.kind.k \in {"Text", "Inline"}
      THEN Wrap(Last(InlineWidth(child, cursor)))
      ELSE IF child.kind.k \in {"List", "InlineContainer"}
      THEN ContainerWidth(child, cursor)
      ELSE BlockWidth(child, cursor).w

\* The width the root had available.
RootWidth ==
  BlockWidth(built, BoxCursor(0, 0, [built.size EXCEPT !.content.w = width])).w

\* --------------------------------------------------------------- claims

HelloInput == input = Paragraph(<<Text(HelloWorld)>>) /\ width = 10

\* C1 as the scenario states it: "hello world" in a paragraph at 10 columns
\* prints the rows "hello" and "world", each padded to 10 columns, and one
\* blank row.
C1_WordWrapped ==
  (HelloInput /\ pc = "rendered")
    => Rows(out) = << <<"h", "e", "l", "l", "o">> \o Spaces(5),
                      <<"w", "o", "r", "l", "d">> \o Spaces(5),
                      Spaces(10) >>

\* C1 as the code wraps: "hello world" in a paragraph at 10 columns is laid
\* out and rendered without a panic and prints exactly three rows: the first
\* ten clusters "hello worl", then "d" padded to 10 columns, then one blank
\* row of 10 spaces.
C1_GraphemeWrapped ==
  HelloInput
    => /\ pc # "panic"
       /\ pc = "rendered"
            => Rows(out) = << SubSeq(HelloWorld, 1, 10),
                              <<"d">> \o Spaces(9),
                              Spaces(10) >>

C1_Rendered == HelloInput /\ pc = "rendered" /\ Len(Rows(out)) = 3

\* The Text nodes below a node laid out at width lw each have a content
\* width equal to the display width of their text, and that width is at
\* most the width that was available to them.
RECURSIVE TextsFit(_, _)
TextsFit(self, lw) ==
  \A i \in 1..Len(self.children) :
    LET child == self.children[i]
        avail == WidthFor(self, lw, child)
    IN  IF child.kind.k = "Text"
        THEN /\ child.size.content.w = StrWidth(child.kind.text.s)
             /\ StrWidth(child.kind.text.s) <= avail
        ELSE TextsFit(child, avail)

\* C2: after layout every Text node's content width equals the display
\* width of the text it retains and is at most the width that was available
\* to the node.
C2_TextWidth == Done => TextsFit(root, RootWidth)

RECURSIVE SumHeights(_, _)
SumHeights(children, kinds) ==
  IF children = <<>> THEN 0
  ELSE (IF Head(children).kind.k \in kinds
        THEN Head(children).size.content.h + Head(children).size.border.top
             + Head(children).size.border.bottom
        ELSE 0) + SumHeights(Tail(children), kinds)

AllKinds ==
  {"Block", "Header", "List", "ListBullet", "InlineContainer", "Inline",
   "Text", "Break"}

\* C3 as stated: after layout the content height of every Block and of every
\* List is the sum, over all its children (the ListBullet children of a List
\* included), of the child's content height plus its top and bottom border.
C3_AllChildren ==
  Done => \A box \in Nodes(root) :
            box.kind.k \in {"Block", "List"}
              => box.size.content.h = SumHeights(box.children, AllKinds)

\* C3 as the code accumulates: after layout the content height of every
\* Block is the sum over all its children of the child's content height plus
\* its top and bottom border, and the content height of every List is that
\* sum over its Block children only (its ListBullet children add nothing).
C3_BlockChildren ==
  Done => \A box \in Nodes(root) :
            /\ box.kind.k = "Block"
                 => box.size.content.h = SumHeights(box.children, AllKinds)
            /\ box.kind.k = "List"
                 => box.size.content.h = SumHeights(box.children, {"Block"})

C3_ListAndLines ==
  /\ pc = "laid"
  /\ overflowed = ""
  /\ \E box \in Nodes(root) :
       /\ box.kind.k = "List"
       /\ box.size.content.h >= 2
       /\ SumHeights(box.children, {"ListBullet"}) >= 2
  /\ \E box \in Nodes(root) :
       /\ box.kind.k = "Block"
       /\ Len(box.children) >= 2
       /\ box.size.content.h >= 2

\* C4: after layout the outer horizontal extent of every child (content
\* plus left and right border) lies inside the content extent of its parent
\* (read on the runs in which no u16 operation overflowed).
C4_ChildInsideParent ==
  (Done /\ overflowed = "") => \A parent \in Nodes(root) :
            \A i \in 1..Len(parent.children) :
              LET child == parent.children[i]
              IN  /\ child.size.content.x - child.size.border.left
                       >= parent.size.content.x
                  /\ child.size.content.x + child.size.content.w
                       + child.size.border.right
                       <= parent.size.content.x + parent.size.content.w

LayoutPanics ==
  {SubOverflow, AddOverflow, RejectFirst, RejectBlock, BadListChild,
   LayoutBreak, Unimplemented}

\* A block-like node whose remaining width is at most its left plus right
\* border takes width 1.
NarrowBlocksTakeOne ==
  \A cw \in 0..MaxCols : \A x \in 0..cw : \A bl \in 0..1 : \A br \in 0..1 :
    LET self == [new_block EXCEPT !.size.border.left = bl,
                                  !.size.border.right = br]
        container == [DefaultSize EXCEPT !.content.w = cw]
    IN  cw - x <= bl + br => BlockWidth(self, BoxCursor(x, 0, container)).w = 1

\* C5: for every budget and every tree the layout runs to completion, none
\* of its u16 width computations leaves the range of u16, and a block-like
\* node whose remaining width is at most its borders takes width 1.
C5_NoUnderflow ==
  /\ overflowed = ""
  /\ pc = "panic" => err \notin LayoutPanics
  /\ NarrowBlocksTakeOne

\* A List with an item whose body is empty, followed by an item whose body
\* is not.
EmptyItemFirst(box) ==
  \E list \in Nodes(box) :
    /\ list.kind.k = "List"
    /\ \E i \in 1..Len(list.children) : \E j \in 1..Len(list.children) :
         /\ i < j
         /\ list.children[i].kind.k = "Block"
         /\ list.children[i].children = <<>>
         /\ list.children[j].kind.k = "Block"
         /\ list.children[j].children # <<>>

\* C6: a document with an empty item body followed by a non-empty item is
\* laid out and rendered without a panic, and every Block or List without
\* children has content height 0 (read on the runs in which no u16
\* operation overflowed).
C6_EmptyNodes ==
  (EmptyItemFirst(built) /\ overflowed = "")
    => /\ pc # "panic"
       /\ Done => \A box \in Nodes(root) :
                    (box.kind.k \in {"Block", "List"} /\ box.children = <<>>)
                      => box.size.content.h = 0

\* A text of clusters of display width 1.
Narrow(s) == \A i \in 1..Len(s) : CharWidth(s[i]) = 1 /\ s[i] \notin ExtendChars

\* A Block holding one line container with a single Text of width-1
\* clusters.
OneNarrowText(box) ==
  /\ box.kind.k = "Block"
  /\ Len(box.children) = 1
  /\ box.children[1].kind.k = "InlineContainer"
  /\ Len(box.children[1].children) = 1
  /\ box.children[1].children[1].kind.k = "Text"
  /\ Narrow(box.children[1].children[1].kind.text.s)

CeilDiv(n, w) == (n + w - 1) \div w

\* A laid-out Block whose children are the lines of a text of n width-1
\* clusters wrapped at width w.
LinesOf(laid, n, w) ==
  /\ Len(laid.children) = IF n = 0 THEN 1 ELSE CeilDiv(n, w)
  /\ \A i \in 1..Len(laid.children) :
       LET line == laid.children[i]
       IN  /\ line.kind.k = "InlineContainer"
           /\ Len(line.children) = 1
           /\ line.children[1].kind.k = "Text"
           /\ Len(line.children[1].kind.text.s)
                = IF i < Len(laid.children) THEN w ELSE n - (i - 1) * w
           /\ line.children[1].size.content.w
                = Len(line.children[1].kind.text.s)

\* Every Block of the built tree that holds one line container with a single
\* narrow Text, reached through block-level children only, has become its
\* lines in the laid-out tree; lw is the width `laid` was laid out at.
RECURSIVE LinesEverywhere(_, _, _)
LinesEverywhere(before, laid, lw) ==
  IF OneNarrowText(before)
  THEN lw >= 1 /\ LinesOf(laid, Len(before.children[1].children[1].kind.text.s), lw)
  ELSE IF \A i \in 1..Len(before.children) :
            before.children[i].kind.k \in {"Block", "Header", "List", "ListBullet"}
  THEN /\ Len(laid.children) = Len(before.children)
       /\ \A i \in 1..Len(before.children) :
            LinesEverywhere(before.children[i], laid.children[i],
                            WidthFor(laid, lw, laid.children[i]))
  ELSE TRUE

\* Each split of a narrow Text leaves a continuation strictly shorter than
\* the text that was to be placed.
SplitsShorten ==
  \A box \in Nodes(built) : \A avail \in 1..(MaxCols + 1) :
    (box.kind.k = "Text" /\ Narrow(box.kind.text.s))
      => LET r == layout_text([box EXCEPT !.size.content.w = avail])
         IN  r.res = "CutHere"
               => /\ Len(r.node.kind.text.s) = avail
                  /\ Len(r.next.kind.text.s) < Len(box.kind.text.s)

\* C7: a Block holding one line container with a single Text of n width-1
\* clusters, laid out at width w >= 1, ends with ceil(n / w) line containers
\* (one when n = 0), every line but the last holding exactly w columns, and
\* each split strictly shortens the text still to be placed.
C7_LineCount ==
  Done => LinesEverywhere(built, root, RootWidth) /\ SplitsShorten

C7_FourLines ==
  /\ pc = "laid"
  /\ input = Paragraph(<<Text(HelloWorld)>>)
  /\ width = 3
  /\ Len(root.children[1].children) = 4
  /\ Len(root.children[1].children[4].children[1].kind.text.s) = 2

\* C8: the concatenation of the strings of all Text nodes, read depth first
\* in child order, is the same after layout as it was before.
C8_TextPreserved == Done => TextOf(root) = TextOf(built)

C8_SplitAndBroken ==
  /\ pc = "laid"
  /\ CountKind(root, "Text") > CountKind(built, "Text")
  /\ CountKind(built, "Break") > 0
  /\ TextOf(built) # <<>>

\* C9: after layout no Break node remains anywhere in the tree.
C9_NoBreak == Done => \A box \in Nodes(root) : box.kind.k # "Break"

C9_BreakInSpan ==
  /\ pc = "laid"
  /\ \E box \in Nodes(built) :
       /\ box.kind.k = "Inline"
       /\ \E i \in 1..Len(box.children) : box.children[i].kind.k = "Break"
  /\ \E i \in 1..Len(built.children) :
       \E j \in 1..Len(built.children[i].children) :
         built.children[i].children[j].kind.k = "Break"

\* C10 as stated: the root's content width equals the width budget after the
\* build and after layout.
C10_RootKeepsBudget ==
  pc \in {"built", "laid", "rendered"} => root.size.content.w = width

RECURSIVE MaxOuterW(_)
MaxOuterW(children) ==
  IF children = <<>> THEN 0
  ELSE LET ow == Wrap(Head(children).size.content.w
                      + Head(children).size.border.left
                      + Head(children).size.border.right)
           rest == MaxOuterW(Tail(children))
       IN  IF ow > rest THEN ow ELSE rest

\* C10 as the code leaves it: the root's content width equals the width
\* budget after the build; after layout it is the greatest outer width of
\* the root's children, which may be less or more than the budget.
C10_RootWidth ==
  /\ pc = "built" => root.size.content.w = width
  /\ Done => root.size.content.w = MaxOuterW(root.children)

C10_RootShrunk ==
  /\ pc = "laid"
  /\ overflowed = ""
  /\ width = 10
  /\ root.size.content.w = 1
  /\ built.size.content.w = 10

\* The label a bullet holds: the strings of the Text nodes of its line
\* containers, when it has exactly one line container with exactly one Text.
OneLabel(bullet, label) ==
  /\ Len(bullet.children) = 1
  /\ bullet.children[1].kind.k = "InlineContainer"
  /\ Len(bullet.children[1].children) = 1
  /\ bullet.children[1].children[1].kind.k = "Text"
  /\ bullet.children[1].children[1].kind.text.s = label

\* The labels of the direct ListBullet children of a List whose End was
\* consumed: the k-th bullet (k from 1) holds s + k - 1 in decimal when the
\* list starts at s, "*" when it is unordered.
LabelledList(list) ==
  \A i \in 1..Len(list.children) :
    list.children[i].kind.k = "ListBullet"
      => LET k == Cardinality({j \in 1..i : list.children[j].kind.k = "ListBullet"})
         IN  OneLabel(list.children[i],
                      IF list.kind.n = NoStart THEN <<"*">>
                      ELSE to_string(list.kind.n + k - 1))

\* C11: once the End of a List was consumed every direct ListBullet child of
\* that List holds exactly one label, s + k - 1 in decimal for the k-th
\* bullet of a list starting at s and "*" in an unordered list, bullets of a
\* nested list being labelled by their own list only; until that End the
\* bullets of the List hold nothing.
C11_BulletLabels ==
  /\ built # NoBox
       => \A list \in Nodes(built) : list.kind.k = "List" => LabelledList(list)
  /\ \A f \in 1..Len(stack) :
       stack[f].node.kind.k = "List"
         => \A i \in 1..Len(stack[f].node.children) :
              stack[f].node.children[i].kind.k = "ListBullet"
                => stack[f].node.children[i].children = <<>>

C11_ThreeNumbered ==
  /\ pc = "built"
  /\ \E list \in Nodes(built) :
       /\ list.kind.k = "List"
       /\ list.kind.n = 1
       /\ Cardinality({i \in 1..Len(list.children) :
                         list.children[i].kind.k = "ListBullet"}) = 3
       /\ OneLabel(list.children[5], <<"3">>)

\* The destinations of the Link starts of a stream, in stream order.
RECURSIVE LinkDests(_)
LinkDests(events) ==
  IF events = <<>> THEN <<>>
  ELSE (IF Head(events).ev = "Start" /\ Head(events).tag = "Link"
        THEN <<Head(events).text.s>> ELSE <<>>) \o LinkDests(Tail(events))

\* A block holding, for each destination in order, one line container with
\* the destination as its only Text, followed by one Break.
HoldsLinks(block, dests) ==
  /\ block.kind.k = "Block"
  /\ Len(block.children) = 2 * Len(dests)
  /\ \A j \in 1..Len(dests) :
       /\ block.children[2 * j - 1].kind.k = "InlineContainer"
       /\ Len(block.children[2 * j - 1].children) = 1
       /\ block.children[2 * j - 1].children[1].kind.k = "Text"
       /\ block.children[2 * j - 1].children[1].kind.text.s = dests[j]
       /\ block.children[2 * j].kind.k = "Break"

FootnoteNames ==
  {input[i].text.s : i \in {j \in 1..Len(input) :
      input[j].ev = "Start" /\ input[j].tag = "FootnoteDefinition"}}

\* The footnotes block: empty when the stream defines no footnote, else
\* beginning with the label of a definition.
HoldsFootnotes(block) ==
  /\ block.kind.k = "Block"
  /\ IF FootnoteNames = {} THEN block.children = <<>>
     ELSE /\ block.children # <<>>
          /\ block.children[1].kind.k = "InlineContainer"
          /\ block.children[1].children[1].kind.text.s \in FootnoteNames

\* C12: nothing is appended to the root while the stream is consumed; after
\* build the whole stream was consumed and the last two children of the root
\* are the links block followed by the footnotes block, the links block
\* holding, in stream order, one destination Text and one Break for each
\* Link start of the stream.
C12_SideBlocks ==
  /\ pc = "build" => root = NoBox /\ links # NoBox
  /\ pc = "built"
       => /\ pos = Len(input)
          /\ Len(root.children) >= 2
          /\ HoldsLinks(root.children[Len(root.children) - 1], LinkDests(input))
          /\ HoldsFootnotes(root.children[Len(root.children)])

\* No footnote definition starts inside another one.
FlatFootnotes ==
  \A i \in 1..Len(input) : \A j \in 1..Len(input) :
    (i < j /\ input[i].ev = "Start" /\ input[i].tag = "FootnoteDefinition"
           /\ input[j].ev = "Start" /\ input[j].tag = "FootnoteDefinition")
      => \E k \in (i + 1)..(j - 1) :
           input[k].ev = "End" /\ input[k].tag = "FootnoteDefinition"

\* C12 read on the streams in which no footnote definition starts inside
\* another one: there the whole of C12 holds.
C12_Flat == FlatFootnotes => C12_SideBlocks

\* The language hints of the CodeBlocks that are open after a prefix of the
\* stream, innermost last.
RECURSIVE OpenCodeBlocks(_, _)
OpenCodeBlocks(events, open) ==
  IF events = <<>> THEN open
  ELSE IF Head(events).tag = "CodeBlock" /\ Head(events).ev = "Start"
  THEN OpenCodeBlocks(Tail(events), Append(open, Head(events).text.s))
  ELSE IF Head(events).tag = "CodeBlock" /\ Head(events).ev = "End" /\ open # <<>>
  THEN OpenCodeBlocks(Tail(events), SubSeq(open, 1, Len(open) - 1))
  ELSE OpenCodeBlocks(Tail(events), open)

\* A CodeBlock whose hint resolves to a known syntax was started and not yet
\* ended by the events consumed so far.
InKnownCodeBlock ==
  LET open == OpenCodeBlocks(SubSeq(input, 1, pos), <<>>)
  IN  \E i \in 1..Len(open) : open[i] \in KnownSyntaxes

\* C13: while the stream is consumed the highlighter is active exactly
\* between the Start of a CodeBlock whose hint resolves to a known syntax
\* and that block's End; a Text event met at any other point is not given to
\* the highlighter and adds exactly one Text node.
C13_HighlighterScope ==
  pc = "build"
    => /\ highline <=> InKnownCodeBlock
       /\ (pos < Len(input) /\ Next_event.ev = "Text" /\ ~InKnownCodeBlock)
            => /\ ~highline
               /\ CountKind(PlainText(Parent, Next_event.text), "Text")
                    = CountKind(Parent, "Text") + 1

\* Every CodeBlock of the stream holds Text events only.
TextOnlyCodeBlocks ==
  \A i \in 1..Len(input) :
    OpenCodeBlocks(SubSeq(input, 1, i - 1), <<>>) # <<>>
      => \/ input[i].ev = "Text"
         \/ input[i].ev = "End" /\ input[i].tag = "CodeBlock"

\* C13 on the streams whose CodeBlocks hold Text events only: while such a
\* stream is consumed the highlighter is active exactly between the Start of
\* a CodeBlock whose hint resolves to a known syntax and that block's End; a
\* Text event met at any other point is not given to the highlighter and
\* adds exactly one Text node.
C13_TextOnly == TextOnlyCodeBlocks => C13_HighlighterScope

C13_TextAfterHighlighted ==
  /\ pc = "build"
  /\ TextOnlyCodeBlocks
  /\ pos < Len(input)
  /\ Next_event.ev = "Text"
  /\ ~highline
  /\ OpenCodeBlocks(SubSeq(input, 1, pos), <<>>) = <<>>
  /\ \E i \in 1..pos : input[i] = EndCodeBlock(<<"r", "s">>)

\* ------------------------------------------- the free functions on their own

\* The variables of push_ansi while a free function is called on its own.
NotStarted ==
  /\ input = <<>>
  /\ pos = 0
  /\ pc = "new"
  /\ stack = <<>>
  /\ links = NoBox
  /\ footnotes = NoBox
  /\ syntax = <<>>
  /\ highline = FALSE
  /\ root = NoBox
  /\ width = 0
  /\ built = NoBox
  /\ overflowed = ""
  /\ out = <<>>
  /\ err = ""

Levels == 0..255

\* from_color reads of a channel its top 4 bits and channel * 6 / 256 only:
\* the first and the last level of every run of levels on which both are
\* constant stand for the run.
ChannelEdges ==
  {l \in Levels :
     \/ l = 0
     \/ l = 255
     \/ <<l \div 16, (l * 6) \div 256>> # <<(l - 1) \div 16, ((l - 1) * 6) \div 256>>
     \/ <<l \div 16, (l * 6) \div 256>> # <<(l + 1) \div 16, ((l + 1) * 6) \div 256>>}

\* The strings findsplit is called on: up to MaxStrLen code points, with
\* narrow, wide and cluster-extending ones, from no split position to one
\* past the last cluster.
MaxStrLen == 4
StrChars == {"a", "U+4E16", "U+0301"}
Strs == UNION {[1..n -> StrChars] : n \in 0..MaxStrLen}
SplitPositions == 0..(MaxStrLen + 1)

\* The lines layout_inline_container is called on, as build leaves them in
\* a paragraph: up to MaxLineChildren texts and Strong spans, the spans
\* holding texts and Breaks (add_text, add_inline and add_break on the
\* paragraph and on the span, lines 776-780, 868-884 and 1071-1076).
MaxLineChildren == 3
WithChildren(box, children) == [box EXCEPT !.children = children]
TextBox(s, style) == DomBox(KText(Borrowed(s)), style)
StrongStyle == SpanStyle("Strong", DefaultStyle)
SpanText(s) == TextBox(s, StrongStyle)
SpanBreak == DomBox(Kind("Break"), StrongStyle)
SpanChildren ==
  {<<SpanText(<<"a">>), SpanText(<<"a", "b">>)>>,
   <<SpanText(<<"a">>), SpanBreak, SpanText(<<"a">>)>>,
   <<SpanBreak>>}
Spans == {WithChildren(DomBox(Kind("Inline"), StrongStyle), c) : c \in SpanChildren}
LineTexts == {TextBox(s, DefaultStyle) : s \in {<<"a">>, <<"a", "b">>}}
LineChildren ==
  UNION {[1..n -> LineTexts \cup Spans] : n \in 1..MaxLineChildren}
Lines ==
  {WithChildren(DomBox(Kind("InlineContainer"), DefaultStyle), c) :
     c \in LineChildren}

\* The cursor layout_block hands the lines of a paragraph of width w that
\* starts at the origin (lines 453-457), at row y.
LineCursor(w, y) ==
  BoxCursor(0, y, [new_block.size EXCEPT !.content.w = w, !.border.bottom = 1])

CallInit ==
  /\ NotStarted
  /\ call \in {Call1("from_color", <<r, g, b>>) :
                 r \in ChannelEdges, g \in ChannelEdges, b \in ChannelEdges}
              \cup {Call1("from_grey", <<l>>) : l \in Levels}
              \cup {Call1("findsplit", <<Cow(owned, s), p>>) :
                      owned \in BOOLEAN, s \in Strs, p \in SplitPositions}
              \cup {Call1("layout_inline_container", <<line, w>>) :
                      line \in Lines, w \in 1..MaxCols}
  /\ ret = NotReturned

FromColor ==
  /\ call.fn = "from_color" /\ ~ret.done
  /\ ret' = Returned(from_color(call.args[1], call.args[2], call.args[3]))
  /\ UNCHANGED <<call, input, pos, pc, stack, links, footnotes, syntax,
                 highline, root, width, built, overflowed, out, err>>

FromGrey ==
  /\ call.fn = "from_grey" /\ ~ret.done
  /\ ret' = Returned(from_grey(call.args[1]))
  /\ UNCHANGED <<call, input, pos, pc, stack, links, footnotes, syntax,
                 highline, root, width, built, overflowed, out, err>>

\* findsplit(&text, pos) as layout_inline calls it (line 571).
FindSplit ==
  /\ call.fn = "findsplit" /\ ~ret.done
  /\ ret' = Returned(findsplit(call.args[1].s, call.args[2]))
  /\ UNCHANGED <<call, input, pos, pc, stack, links, footnotes, syntax,
                 highline, root, width, built, overflowed, out, err>>

\* split_at_in_place(text, mid) at the offset findsplit returned (line 572);
\* the third argument keeps the split position the offset came from.
SplitAtInPlace ==
  /\ call.fn = "findsplit" /\ ret.done
  /\ call' = Call1("split_at_in_place", <<call.args[1], ret.value, call.args[2]>>)
  /\ ret' = Returned(split_at_in_place(call.args[1], ret.value))
  /\ UNCHANGED <<input, pos, pc, stack, links, footnotes, syntax,
                 highline, root, width, built, overflowed, out, err>>

\* One pass of the loop of layout_block (lines 458-480) over the lines of
\* the paragraph: layout_generic on the line the call was made with, then
\* on the sibling the last pass inserted after it. The value returned
\* keeps every line as it was laid out, the sibling each pass cut off
\* (NoBox when it returned Normal) and the cursor.
LayoutLine ==
  /\ call.fn = "layout_inline_container"
  /\ ret.done => ret.value.err = "" /\ Last(ret.value.cuts) # NoBox
  /\ LET w == call.args[2]
         line == IF ret.done THEN Last(ret.value.cuts) ELSE call.args[1]
         cursor == IF ret.done THEN ret.value.cursor ELSE LineCursor(w, 0)
         lines == IF ret.done THEN ret.value.lines ELSE <<>>
         cuts == IF ret.done THEN ret.value.cuts ELSE <<>>
         r == layout_generic(line, cursor)
     IN  ret' = Returned([lines |-> Append(lines, r.node),
                          cuts |-> Append(cuts, r.next),
                          cursor |-> r.cursor,
                          err |-> Or(r.err, r.ovf)])
  /\ UNCHANGED <<call, input, pos, pc, stack, links, footnotes, syntax,
                 highline, root, width, built, overflowed, out, err>>

CallNext == FromColor \/ FromGrey \/ FindSplit \/ SplitAtInPlace \/ LayoutLine

CallSpec == CallInit /\ [][CallNext]_vars

\* C14: from_color(r, g, b) returns a palette index in 16..255; when the
\* three channels share their top 4 bits it is from_grey(r), otherwise it is
\* 16 + 36 * (r * 6 div 256) + 6 * (g * 6 div 256) + (b * 6 div 256), and
\* neither the products nor the partial sums of that expression exceed 255.
C14_Palette ==
  (call.fn = "from_color" /\ ret.done)
    => LET r == call.args[1]
           g == call.args[2]
           b == call.args[3]
           R == (r * 6) \div 256
           G == (g * 6) \div 256
           B == (b * 6) \div 256
       IN  /\ ret.value \in 16..255
           /\ IF r \div 16 = g \div 16 /\ g \div 16 = b \div 16
              THEN ret.value = from_grey(r)
              ELSE /\ ret.value = 16 + 36 * R + 6 * G + B
                   /\ 36 * R <= 255
                   /\ 6 * G <= 255
                   /\ 16 + 36 * R <= 255
                   /\ 16 + 36 * R + 6 * G <= 255
                   /\ 16 + 36 * R + 6 * G + B <= 255

C14_GreyAndCube ==
  /\ call.fn = "from_color" /\ ret.done
  /\ \/ call.args = <<128, 143, 128>> /\ ret.value = 239
     \/ call.args = <<255, 0, 213>> /\ ret.value = 200

\* C15: from_grey(level), with n the top 4 bits of level, returns 16 when
\* n = 0, 231 when n = 15 and 231 + n otherwise, and the values returned
\* for the intermediate levels make up the greyscale ramp 232..255.
C15_GreyRamp ==
  (call.fn = "from_grey" /\ ret.done)
    => LET n == call.args[1] \div 16
       IN  /\ ret.value = IF n = 0 THEN 16 ELSE IF n = 15 THEN 231 ELSE 231 + n
           /\ {from_grey(l) : l \in {m \in Levels : m \div 16 \notin {0, 15}}}
                = 232..255

\* C15, the values alone: from_grey returns 16, 231 or 231 + n, and the
\* intermediate levels return 232..245, the first 14 steps of the ramp.
C15_GreyValues ==
  (call.fn = "from_grey" /\ ret.done)
    => LET n == call.args[1] \div 16
       IN  /\ ret.value = IF n = 0 THEN 16 ELSE IF n = 15 THEN 231 ELSE 231 + n
           /\ {from_grey(l) : l \in {m \in Levels : m \div 16 \notin {0, 15}}}
                = 232..245

\* C16: rendering does not change the tree: after render the root, with
\* every node's kind, geometry, style and children, is still the tree that
\* layout left, and rendering that tree once more gives, without a panic,
\* exactly the strings the first rendering wrote.
C16_RenderKeepsTree ==
  pc = "rendered"
    => /\ root = layout(built).node
       /\ render(root).err = ""
       /\ render(root).strings = out

\* A rendered tree with several texts and an output of several rows.
C16_RenderedTwice ==
  /\ pc = "rendered"
  /\ width > 1
  /\ CountKind(root, "Text") > 3
  /\ Len(Rows(out)) > 2
  /\ render(root).strings = out

\* The grapheme clusters of a string, read from the left: a code point and
\* the cluster-extending code points that follow it.
RECURSIVE ExtendRun(_)
ExtendRun(s) ==
  IF s # <<>> /\ Head(s) \in ExtendChars THEN 1 + ExtendRun(Tail(s)) ELSE 0

RECURSIVE Clusters(_)
Clusters(s) ==
  IF s = <<>> THEN <<>>
  ELSE LET n == 1 + ExtendRun(Tail(s))
       IN  <<SubSeq(s, 1, n)>> \o Clusters(SubSeq(s, n + 1, Len(s)))

RECURSIVE JoinClusters(_)
JoinClusters(ss) == IF ss = <<>> THEN <<>> ELSE Head(ss) \o JoinClusters(Tail(ss))

\* C17: findsplit(s, pos) returns the offset at which cluster number pos
\* of s begins, or the length of s when s has at most pos clusters;
\* split_at_in_place at that offset leaves as head the first pos clusters
\* and returns as tail the remaining ones, whole, so that head and tail
\* concatenate to s; borrowed text stays borrowed and owned text owned.
C17_SplitOnClusters ==
  /\ (call.fn = "findsplit" /\ ret.done)
       => LET cs == Clusters(call.args[1].s)
              p == call.args[2]
          IN  ret.value = IF Len(cs) > p THEN Len(JoinClusters(SubSeq(cs, 1, p)))
                          ELSE Len(call.args[1].s)
  /\ (call.fn = "split_at_in_place" /\ ret.done)
       => LET cow == call.args[1]
              cs == Clusters(cow.s)
              p == IF call.args[3] < Len(cs) THEN call.args[3] ELSE Len(cs)
          IN  /\ ret.value.head.s = JoinClusters(SubSeq(cs, 1, p))
              /\ ret.value.tail.s = JoinClusters(SubSeq(cs, p + 1, Len(cs)))
              /\ Clusters(ret.value.head.s) \o Clusters(ret.value.tail.s) = cs
              /\ ret.value.head.s \o ret.value.tail.s = cow.s
              /\ ret.value.head.owned = cow.owned
              /\ ret.value.tail.owned = cow.owned

\* An owned string of three clusters, the middle one of two code points,
\* split before its last cluster.
C17_SplitAfterCombining ==
  /\ call.fn = "split_at_in_place" /\ ret.done
  /\ call.args[1] = Owned(<<"a", "a", "U+0301", "U+4E16">>)
  /\ call.args[3] = 2
  /\ ret.value.head = Owned(<<"a", "a", "U+0301">>)
  /\ ret.value.tail = Owned(<<"U+4E16">>)

\* The strings of row `line` of a tree, rendered on its own.
RowOf(self, line) == render_line(self, line, <<>>).strings

\* The rows 0..n-1 of a tree, each followed by one newline.
RowsWithNewlines(self, n) ==
  Flatten([k \in 1..n |-> Append(RowOf(self, k - 1), Newline)])

\* The number of line feeds in a sequence of styled strings.
LineFeeds(strings) ==
  LET chars == Flatten([i \in 1..Len(strings) |-> strings[i].s])
  IN  Cardinality({i \in 1..Len(chars) : chars[i] = LF})

\* C18: the output of render for a laid-out root is exactly its rows, one
\* for each index below content height + top border + bottom border, each
\* followed by exactly one newline: it holds as many newlines as rows and
\* nothing follows the newline of the last row.
C18_RowsOnly ==
  pc = "rendered"
    => LET n == Wrap(OuterH(root))
       IN  /\ out = RowsWithNewlines(root, n)
           /\ LineFeeds(out) = n

\* C18, what is printed: the rows, each followed by one newline, and then
\* one more newline.
C18_RowsAndBlankLine ==
  pc = "rendered"
    => LET n == Wrap(OuterH(root))
       IN  /\ out = Append(RowsWithNewlines(root, n), Newline)
           /\ LineFeeds(out) >= n + 1

\* Reading the passes of LayoutLine: the line pass k was made on, the line
\* as it left it and the sibling it cut off.
LinePasses == IF call.fn = "layout_inline_container" /\ ret.done
              THEN 1..Len(ret.value.lines) ELSE {}
LineIn(k) == IF k = 1 THEN call.args[1] ELSE ret.value.cuts[k - 1]
LineOut(k) == ret.value.lines[k]
LineCut(k) == ret.value.cuts[k]
LineW == call.args[2]

\* A node with the geometry layout wrote reset, all the way down.
RECURSIVE Unlaid(_)
Unlaid(box) ==
  [box EXCEPT !.size = DefaultSize,
              !.children = [i \in 1..Len(box.children) |-> Unlaid(box.children[i])]]
UnlaidAll(boxes) == [i \in 1..Len(boxes) |-> Unlaid(boxes[i])]

\* Children that are laid out without a cut when there is room: no Break
\* below them and no text without a column.
Quiet(boxes) ==
  \A i \in 1..Len(boxes) :
    \A n \in Nodes(boxes[i]) :
      /\ n.kind.k # "Break"
      /\ n.kind.k = "Text" => StrWidth(n.kind.text.s) >= 1

\* The columns the texts below a sequence of children take.
Columns(boxes) == StrWidth(Flatten([i \in 1..Len(boxes) |-> TextOf(boxes[i])]))

RECURSIVE StartsWithText(_)
StartsWithText(box) ==
  \/ box.kind.k = "Text"
  \/ /\ box.kind.k = "Inline"
     /\ box.children # <<>>
     /\ StartsWithText(box.children[1])

RECURSIVE FirstLeaf(_)
FirstLeaf(box) == IF box.children = <<>> THEN box ELSE FirstLeaf(box.children[1])

From(s, i) == SubSeq(s, i, Len(s))
Before(s, i) == SubSeq(s, 1, i - 1)

\* The part of a text that a line of w columns takes.
Fit(t, w) == IF StrWidth(t) > w THEN SubSeq(t, 1, findsplit(t, w)) ELSE t

\* The text rejected in pass k heads the line of pass k + 1, at the
\* line's left edge and with the whole width of the line to fill.
HeadsNextLine(k, rejected) ==
  (k + 1) \in LinePasses
    => LET next == LineOut(k + 1)
           first == FirstLeaf(next)
       IN  /\ first.kind.k = "Text"
           /\ first.size.content.x = next.size.content.x
           /\ first.kind.text.s = Fit(FirstLeaf(rejected).kind.text.s, LineW)

\* Child i of the line of pass k is a text, or a span that starts with a
\* text, and the children before it fill the line exactly.
RejectedInLine(k, i) ==
  LET c == LineIn(k).children
  IN  /\ Quiet(Before(c, i))
      /\ Columns(Before(c, i)) = LineW
      /\ StartsWithText(c[i])

\* Child i of the span at position j is such a child: the children of the
\* line before the span and those of the span before i fill the line.
RejectedInSpan(k, j, i) ==
  LET c == LineIn(k).children
      s == c[j].children
  IN  /\ Quiet(Before(c, j)) /\ Quiet(Before(s, i))
      /\ Columns(Before(c, j)) + Columns(Before(s, i)) = LineW
      /\ StartsWithText(s[i])

\* C19: a text that finds no column left is rejected with its string
\* unchanged and takes no column; when it, or the span it heads, is not the
\* first child of its container, it and the children after it move in
\* order into a new sibling of the container's kind and style, and after
\* the next pass the rejected text heads the next line with the full width.
C19_RejectStartsNextLine ==
  \A k \in LinePasses :
    LET c == LineIn(k)
        l == LineOut(k)
        n == LineCut(k)
    IN  /\ \A i \in 2..Len(c.children) :
             RejectedInLine(k, i)
               => /\ ret.value.err = ""
                  /\ Len(l.children) = i - 1
                  /\ l.size.content.w = LineW
                  /\ n.kind = c.kind /\ n.style = c.style
                  /\ UnlaidAll(n.children) = UnlaidAll(From(c.children, i))
                  /\ n.children[1].size.content.w = 0
                  /\ FirstLeaf(n).size.content.w = 0
                  /\ HeadsNextLine(k, c.children[i])
        /\ \A j \in 1..Len(c.children) :
             \A i \in 2..Len(c.children[j].children) :
               (c.children[j].kind.k = "Inline" /\ RejectedInSpan(k, j, i))
                 => LET s == c.children[j]
                    IN  /\ ret.value.err = ""
                        /\ Len(l.children) = j
                        /\ Len(l.children[j].children) = i - 1
                        /\ l.size.content.w = LineW
                        /\ n.kind = c.kind /\ n.style = c.style
                        /\ Len(n.children) = 1 + Len(c.children) - j
                        /\ n.children[1].kind = s.kind
                        /\ n.children[1].style = s.style
                        /\ UnlaidAll(n.children[1].children)
                             = UnlaidAll(From(s.children, i))
                        /\ UnlaidAll(Tail(n.children))
                             = UnlaidAll(From(c.children, j + 1))
                        /\ FirstLeaf(n).size.content.w = 0
                        /\ HeadsNextLine(k, s.children[i])

\* A line of width 2 whose first text fills it: the second text and the
\* span after it went to the next line, which was laid out too; and a line
\* on which the second text of a span was rejected.
C19_RejectedSecond ==
  /\ 2 \in LinePasses
  /\ LineW = 2
  /\ \/ /\ Len(LineIn(1).children) = 3
        /\ LineIn(1).children[3].kind.k = "Inline"
        /\ RejectedInLine(1, 2)
        /\ Len(LineOut(1).children) = 1
        /\ Len(LineCut(1).children) = 2
     \/ /\ Len(LineIn(1).children) = 2
        /\ LineIn(1).children[2].kind.k = "Inline"
        /\ Len(LineIn(1).children[2].children) = 2
        /\ RejectedInSpan(1, 2, 2)
        /\ Len(LineCut(1).children) = 1

\* Child i of the span at position j of the line of pass k is a Break that
\* the loop reaches: everything before it fits on the line.
BreakReached(k, j, i) ==
  LET c == LineIn(k).children
      s == c[j].children
  IN  /\ s[i].kind.k = "Break"
      /\ Quiet(Before(c, j)) /\ Quiet(Before(s, i))
      /\ Columns(Before(c, j)) + Columns(Before(s, i)) <= LineW

\* C20: when the loop of a span reaches a Break at position i, the Break
\* is removed, the children before it stay, and the children after it
\* move in order, untouched, into one new sibling with the span's kind,
\* geometry and style, returned as a cut, also when nothing follows the
\* Break; the cut goes up to the line, which keeps its children up to the
\* span and hands the span's sibling and its own later children to a
\* sibling line of its own kind, geometry and style.
C20_BreakCuts ==
  \A k \in LinePasses :
    \A j \in 1..Len(LineIn(k).children) :
      \A i \in 1..Len(LineIn(k).children[j].children) :
        (LineIn(k).children[j].kind.k = "Inline" /\ BreakReached(k, j, i))
          => LET c == LineIn(k)
                 l == LineOut(k)
                 n == LineCut(k)
                 s == c.children[j]
                 kept == l.children[j]
                 given == LineW - Columns(Before(c.children, j))
             IN  /\ ret.value.err = ""
                 /\ Len(l.children) = j
                 /\ Len(kept.children) = i - 1
                 /\ UnlaidAll(kept.children) = UnlaidAll(Before(s.children, i))
                 /\ \A b \in Nodes(l) : b.kind.k # "Break"
                 /\ n # NoBox
                 /\ n.kind = c.kind /\ n.style = c.style
                 /\ n.size = [l.size EXCEPT !.content.w = LineW]
                 /\ Len(n.children) = 1 + Len(c.children) - j
                 /\ n.children[1].kind = s.kind
                 /\ n.children[1].style = s.style
                 /\ n.children[1].size = [kept.size EXCEPT !.content.w = given]
                 /\ n.children[1].children = From(s.children, i + 1)
                 /\ Tail(n.children) = From(c.children, j + 1)

\* A span of a text, a Break and a text after a first text on a line of
\* width 3: the cut left the first two texts; and a span holding only a
\* Break, whose sibling has no children.
C20_BreakInSpan ==
  /\ 1 \in LinePasses
  /\ Len(LineIn(1).children) >= 2
  /\ LineIn(1).children[2].kind.k = "Inline"
  /\ \/ /\ LineW = 3
        /\ Len(LineIn(1).children[2].children) = 3
        /\ BreakReached(1, 2, 2)
        /\ Len(LineCut(1).children[1].children) = 1
     \/ /\ Len(LineIn(1).children[2].children) = 1
        /\ BreakReached(1, 2, 1)
        /\ LineCut(1).children[1].children = <<>>

\* The cells a node covers, borders included.
Cells(box) ==
  {<<x, y>> : x \in (box.size.content.x - box.size.border.left)
                      ..(box.size.content.x + box.size.content.w
                           + box.size.border.right - 1),
              y \in (box.size.content.y - box.size.border.top)
                      ..(box.size.content.y + box.size.content.h
                           + box.size.border.bottom - 1)}

\* The children of a List are bullets and item bodies in turn.
ItemPairs(list) ==
  /\ Len(list.children) % 2 = 0
  /\ \A i \in 1..Len(list.children) :
       list.children[i].kind.k = IF i % 2 = 1 THEN "ListBullet" ELSE "Block"

\* Each bullet sits beside its item body, and the next bullet starts at the
\* left edge of the List on the row below the body.
BulletsBeside(list) ==
  \A i \in 1..Len(list.children) :
    LET c == list.children[i]
    IN  IF i % 2 = 0
        THEN LET bullet == list.children[i - 1]
             IN  /\ c.size.content.y = bullet.size.content.y
                 /\ c.size.content.x - c.size.border.left
                      = bullet.size.content.x + bullet.size.content.w
                          + bullet.size.border.right
        ELSE /\ c.size.content.x = list.size.content.x
             /\ c.size.content.y =
                  IF i = 1 THEN list.size.content.y
                  ELSE list.children[i - 1].size.content.y
                         - list.children[i - 1].size.border.top
                         + OuterH(list.children[i - 1])

NoSharedCell(list) ==
  \A i, j \in 1..Len(list.children) :
    i < j => Cells(list.children[i]) \cap Cells(list.children[j]) = {}

Lists(box) == {n \in Nodes(box) : n.kind.k = "List"}

\* C21: in every laid-out List each bullet sits beside its item body, the
\* body with the bullet's content y and starting where the bullet's outer
\* width ends; the next bullet starts at the List's content x on the row
\* below the previous body; and no two children of the List share a cell.
C21_BulletsBesideBodies ==
  (Done /\ overflowed = "")
    => \A list \in Lists(root) :
         ItemPairs(list) /\ BulletsBeside(list) /\ NoSharedCell(list)

\* C21, the positions alone.
C21_BulletPositions ==
  (Done /\ overflowed = "")
    => \A list \in Lists(root) : ItemPairs(list) /\ BulletsBeside(list)

LineContainers(box) == {n \in Nodes(box) : n.kind.k = "InlineContainer"}

\* C22: for every built tree and every budget from 0 upward layout never
\* meets a rejection it cannot handle: it ends neither with "can't reject
\* from first" nor with "can't reject a", and in the laid-out tree every
\* line container took at least one column before its children were laid
\* out and its first child was placed on it: the child has its row, starts
\* at the line's left edge and, headed by a text of at least one column,
\* has at least one column itself.
C22_NoUnhandledReject ==
  /\ err \notin {RejectFirst, RejectBlock}
  /\ Done =>
       \A line \in LineContainers(root) :
         /\ line.size.content.h = 1
         /\ line.children # <<>> =>
              LET first == line.children[1]
                  leaf == FirstLeaf(first)
              IN  /\ first.kind.k \in {"Text", "Inline"}
                  /\ first.size.content.h = 1
                  /\ first.size.content.x = line.size.content.x
                  /\ first.size.content.y = line.size.content.y
                  /\ (leaf.kind.k = "Text" /\ StrWidth(leaf.kind.text.s) >= 1)
                       => leaf.size.content.w >= 1 /\ first.size.content.w >= 1

\* A tree laid out at budget 0 with a line headed by a text of at least
\* one column.
C22_LinesAtBudgetZero ==
  /\ pc = "laid"
  /\ width = 0
  /\ \E line \in LineContainers(root) :
       /\ line.children # <<>>
       /\ StrWidth(FirstLeaf(line).kind.text.s) >= 1

\* The columns a sequence of styled strings takes on the terminal.
ColumnsOf(strings) == StrWidth(Flatten([i \in 1..Len(strings) |-> strings[i].s]))

\* The rows of the output a node covers, borders included.
RowsCovered(box) ==
  {y \in 0..(Wrap(OuterH(root)) - 1) :
     /\ y >= box.size.content.y - box.size.border.top
     /\ y < box.size.content.y + box.size.content.h + box.size.border.bottom}

\* On every row it covers a node emits exactly the columns of the span it
\* reports, its outer width starting at its left border.
EmitsItsWidth(box) ==
  \A y \in RowsCovered(box) :
    LET r == render_line(box, y, <<>>)
    IN  /\ r.err = ""
        /\ r.start = box.size.content.x - box.size.border.left
        /\ r.len = OuterW(box)
        /\ ColumnsOf(r.strings) = r.len

\* On every row the children that emit anything follow each other from
\* left to right inside the content of their parent, without overlap.
ChildrenInOrder(box) ==
  \A y \in RowsCovered(box) :
    \A i, j \in 1..Len(box.children) :
      LET a == box.children[i]
          b == box.children[j]
      IN  (i < j /\ y \in RowsCovered(a) /\ y \in RowsCovered(b)
             /\ OuterW(a) > 0 /\ OuterW(b) > 0)
            => a.size.content.x + a.size.content.w + a.size.border.right
                 <= b.size.content.x - b.size.border.left

\* The lines the terminal shows for row y: the row's characters between
\* its line feeds.
ShownLines(y) ==
  SplitRows(Append(Flatten([i \in 1..Len(RowOf(root, y)) |-> RowOf(root, y)[i].s]),
                   LF),
            <<>>, <<>>)

C23_ColumnsPerRow ==
  pc = "rendered"
    => /\ out = Append(RowsWithNewlines(root, Wrap(OuterH(root))), Newline)
       /\ \A y \in 0..(Wrap(OuterH(root)) - 1) :
            ColumnsOf(RowOf(root, y)) = OuterW(root)
       /\ \A box \in Nodes(root) : EmitsItsWidth(box) /\ ChildrenInOrder(box)

====
